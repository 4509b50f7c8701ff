------------------------- MODULE HostSourcesProofs -------------------------
(***************************************************************************)
(* What the sources of hosts keep, for any sizes, networks, servers and     *)
(* items.                                                                   *)
(*                                                                         *)
(* The invariant says of each source what its hosts are so far (Drawn,      *)
(* Found, Picked), and where a source can be and what it knows there        *)
(* (Stages).                                                                *)
(***************************************************************************)
EXTENDS HostSources, Facts

\* Host number k came from the network whose turn it was.
Drawn ==
  source = "scan" =>
    /\ netIdx \in [1..numOfNets(size) -> 1..Networks] /\ IsInjective(netIdx)
    /\ pc = "scan" => \A k \in DOMAIN hosts : hosts[k] \in randIP(NetworkOf(k - 1))
    /\ pc = "done" => \A i, j \in DOMAIN hosts : i < j => hosts[i] < hosts[j]

Found ==
  source = "spambot" =>
    /\ mx \in [Domains -> Servers \cup {0}]
    /\ left \subseteq Domains /\ lost \subseteq Domains \ left
    /\ Range(hosts) = {mx[d] : d \in (Domains \ left) \ lost} \ {0}

Places == IF source = "tor" THEN 1..Sites ELSE DOMAIN items

Picked ==
  source \in WisdomTypes \cup {"tor"} /\ pc \in {"pick", "done"} =>
    /\ left \subseteq Places
    /\ Range(hosts) = {i \in Places \ left : Usable(i)}

Stages ==
  /\ source = "scan" => pc \in {"scan", "done"}
  /\ source = "spambot" => pc \in {"lookup", "done"}
  /\ source = "tor" => pc \in {"pick", "done"}
  /\ source = "families" => pc \in {"request", "read", "done", "error"}
  /\ source \in WisdomTypes => pc \in {"request", "read", "pick", "done", "error"}
  /\ pc \in {"request", "read", "error"} => hosts = <<>> /\ left = {}
  /\ pc = "request" => reply = "none" /\ tried < Attempts
  /\ pc = "read" => reply # "none"
  /\ pc = "error" => reply # "items" /\ (reply = "none" => tried = Attempts)
  /\ source \in WisdomTypes \cup {"families"} /\ pc \in {"pick", "done"} => reply = "items"
  /\ source \notin {"scan", "families"} /\ pc = "done" => Len(hosts) = size \/ left = {}
  /\ source = "families" /\ pc = "done" => hosts = [i \in DOMAIN items |-> i]

Typed ==
  /\ TypeOK
  /\ tried \in Nat
  /\ items \in Seq(Items)

IInv ==
  /\ Typed
  /\ IsInjective(hosts)
  /\ Drawn
  /\ Found
  /\ Picked
  /\ Stages
-----------------------------------------------------------------------------
(* The order of a scan *)

\* Sorted keeps the length of a sequence of different numbers, and orders it.
LEMMA SortedInOrder ==
  ASSUME NEW s \in Seq(Nat), IsInjective(s)
  PROVE  /\ Sorted(s) \in Seq(Nat) /\ Len(Sorted(s)) = Len(s)
         /\ IsInjective(Sorted(s))
         /\ \A i, j \in DOMAIN Sorted(s) : i < j => Sorted(s)[i] < Sorted(s)[j]
<1> DEFINE S == Range(s)
           n == Len(s)
           rank == [x \in S |-> Cardinality({y \in S : y < x})]
           t == Sorted(s)
<1>1. n \in Nat /\ DOMAIN s = 1..n /\ S \in SUBSET Nat
  BY DEF Range
<1>2. s \in Bijection(1..n, S)
  BY <1>1 DEF Bijection, Injection, Surjection, IsInjective, Range
<1>3. IsFiniteSet(S) /\ Cardinality(S) = n
  <2>1. IsFiniteSet(1..n) /\ Cardinality(1..n) = n
    BY <1>1, FS_Interval
  <2>2. ExistsBijection(1..n, S)
    BY <1>2 DEF ExistsBijection
  <2> HIDE DEF n, S
  <2> QED  BY <2>1, <2>2, FS_Bijection
<1>4. /\ \A x, y \in S : x < y => rank[x] < rank[y]
      /\ rank \in Surjection(S, 0..(n - 1))
  BY <1>1, <1>3, Ranks
<1>5. \A i \in 1..n : \E x \in S : rank[x] = i - 1
  <2>1. \A k \in 0..(n - 1) : \E x \in S : rank[x] = k
    BY <1>4 DEF Surjection
  <2>2. \A i \in 1..n : i - 1 \in 0..(n - 1)
    BY <1>1
  <2> HIDE DEF rank, S
  <2> QED  BY <2>1, <2>2
<1>6. t = [i \in 1..n |-> CHOOSE x \in S : Cardinality({y \in S : y < x}) = i - 1]
  BY <1>1 DEF Sorted
<1>7. ASSUME NEW i \in 1..n
      PROVE  t[i] \in S /\ rank[t[i]] = i - 1
  <2>1. \E x \in S : Cardinality({y \in S : y < x}) = i - 1
    BY <1>5
  <2>2. t[i] = CHOOSE x \in S : Cardinality({y \in S : y < x}) = i - 1
    BY <1>6
  <2>3. t[i] \in S /\ Cardinality({y \in S : y < t[i]}) = i - 1
    BY <2>1, <2>2
  <2> QED  BY <2>3
<1> HIDE DEF rank, t, S, n
<1>8. t \in [1..n -> Nat]
  <2>1. DOMAIN t = 1..n
    BY <1>6
  <2>2. \A i \in 1..n : t[i] \in Nat
    BY <1>1, <1>7
  <2>3. \A i \in 1..n : (CHOOSE x \in S : Cardinality({y \in S : y < x}) = i - 1) \in Nat
    BY <1>6, <2>2
  <2> QED  BY <1>6, <2>3, Zenon
<1>9. t \in Seq(Nat) /\ Len(t) = n /\ DOMAIN t = 1..n
  BY <1>1, <1>8
<1>10. ASSUME NEW i \in 1..n, NEW j \in 1..n, i < j
       PROVE  t[i] < t[j]
  <2>1. /\ t[i] \in S /\ t[j] \in S /\ t[i] \in Nat /\ t[j] \in Nat
        /\ rank[t[i]] = i - 1 /\ rank[t[j]] = j - 1
    BY <1>1, <1>7
  <2>2. t[j] < t[i] => rank[t[j]] < rank[t[i]]
    BY <1>4, <2>1
  <2>3. t[i] # t[j]
    BY <1>1, <1>10, <2>1
  <2> QED  BY <1>1, <1>10, <2>1, <2>2, <2>3
<1>11. IsInjective(t)
  <2>1. ASSUME NEW i \in 1..n, NEW j \in 1..n, t[i] = t[j]
        PROVE  i = j
    <3>1. rank[t[i]] = i - 1 /\ rank[t[j]] = j - 1
      BY <1>7
    <3>2. i - 1 = j - 1
      BY <2>1, <3>1
    <3> QED  BY <1>1, <3>2
  <2> QED  BY <1>9, <2>1 DEF IsInjective
<1> QED  BY <1>9, <1>10, <1>11 DEF t, n
-----------------------------------------------------------------------------
(* The turns of the networks of a scan *)

\* The lemmas of this part are stated with quantifiers: so the first-order
\* prover can apply them where products are about, which confuse the other.
LEMMA DivMod ==
  \A x \in Nat : \A n \in Nat \ {0} :
    /\ x \div n \in Nat /\ x % n \in 0..(n - 1)
    /\ x = n * (x \div n) + (x % n) /\ n * (x \div n) \in Nat
OBVIOUS

LEMMA TimesMonotone ==
  ASSUME NEW n \in Nat, NEW p \in Nat, NEW q \in Nat, p >= q
  PROVE  n * p >= n * q
<1>1. n * (p - q) \in Nat
  OBVIOUS
<1>2. n * p = n * q + n * (p - q)
  OBVIOUS
<1>3. n * p \in Nat /\ n * q \in Nat
  OBVIOUS
<1> QED  BY <1>1, <1>2, <1>3

LEMMA TimesLess ==
  \A n, p, q, r \in Nat : n * p + r < n * q + r => p < q
<1> TAKE n, p, q, r \in Nat
<1> HAVE n * p + r < n * q + r
<1>1. n * p \in Nat /\ n * q \in Nat
  OBVIOUS
<1>2. p >= q => n * p >= n * q
  BY TimesMonotone
<1> QED  BY <1>1, <1>2

LEMMA QuotientBelow ==
  \A n, A, q, r \in Nat : n * q + r < n * A => q < A
<1> TAKE n, A, q, r \in Nat
<1> HAVE n * q + r < n * A
<1>1. n * A \in Nat /\ n * q \in Nat
  OBVIOUS
<1>2. q >= A => n * q >= n * A
  BY TimesMonotone
<1> QED  BY <1>1, <1>2

Address(net, A, a) == net * A + a

\* An address belongs to one network and has one place in it.
LEMMA OneNetwork ==
  \A A \in Nat \ {0} : \A x, y \in Nat : \A a, b \in 0..(A - 1) :
    Address(x, A, a) = Address(y, A, b) => x = y /\ a = b
<1> SUFFICES ASSUME NEW A \in Nat \ {0}, NEW x \in Nat, NEW y \in Nat,
                    NEW a \in 0..(A - 1), NEW b \in 0..(A - 1), x * A + a = y * A + b
             PROVE  x = y /\ a = b
  BY DEF Address
<1>1. ASSUME NEW u \in Nat, NEW v \in Nat, u >= v + 1
      PROVE  u * A >= v * A + A
  <2>1. A * u >= A * (v + 1)
    BY <1>1, TimesMonotone
  <2>2. A * u = u * A /\ A * (v + 1) = v * A + A
    OBVIOUS
  <2> QED  BY <2>1, <2>2
<1>2. x * A \in Nat /\ y * A \in Nat
  OBVIOUS
<1>3. ~(x >= y + 1) /\ ~(y >= x + 1)
  BY <1>1, <1>2
<1>4. x = y
  BY <1>3
<1> QED  BY <1>2, <1>4

\* Host number k of s is an address of the network whose turn it was.
TakesItsTurn(s, net, n, A, k) == \E a \in 0..(A - 1) : s[k] = Address(net[((k - 1) % n) + 1], A, a)

NumberedByTurn(n, A, q, r, s, net) ==
  \A k \in Nat \ {0} : \A a \in 0..(A - 1) :
    k - 1 < n * q + r /\ TakesItsTurn(s, net, n, A, k) /\ s[k] = Address(net[r + 1], A, a) =>
      (k - 1) \div n \in 0..(q - 1) /\ k = n * ((k - 1) \div n) + r + 1

\* So the hosts of the network in place r + 1 are numbered r + 1, n + r + 1, ...
LEMMA TurnNumber ==
  ASSUME NEW n \in Nat \ {0}, NEW A \in Nat \ {0}, NEW q \in Nat, NEW r \in 0..(n - 1),
         NEW s, NEW net \in [1..n -> Nat], IsInjective(net)
  PROVE  NumberedByTurn(n, A, q, r, s, net)
<1> SUFFICES ASSUME NEW k \in Nat \ {0}, NEW a \in 0..(A - 1),
                    k - 1 < n * q + r, TakesItsTurn(s, net, n, A, k), s[k] = Address(net[r + 1], A, a)
             PROVE  (k - 1) \div n \in 0..(q - 1) /\ k = n * ((k - 1) \div n) + r + 1
  BY DEF NumberedByTurn
<1> DEFINE t == (k - 1) \div n
           m == (k - 1) % n
<1>1. PICK b \in 0..(A - 1) : s[k] = Address(net[m + 1], A, b)
  BY DEF TakesItsTurn
<1>2. k - 1 \in Nat /\ t = (k - 1) \div n /\ m = (k - 1) % n
  OBVIOUS
<1> HIDE DEF t, m
<1>3. t \in Nat /\ m \in 0..(n - 1) /\ k - 1 = n * t + m /\ n * t \in Nat
  BY <1>2, DivMod, Zenon
<1>4. net[m + 1] = net[r + 1]
  <2>1. m + 1 \in 1..n /\ r + 1 \in 1..n
    BY <1>3
  <2>2. net[m + 1] \in Nat /\ net[r + 1] \in Nat
    BY <2>1
  <2>3. Address(net[m + 1], A, b) = Address(net[r + 1], A, a)
    BY <1>1
  <2> QED  BY <2>2, <2>3, OneNetwork
<1>5. m = r
  BY <1>3, <1>4 DEF IsInjective
<1>6. n * t + r < n * q + r /\ r \in Nat /\ n \in Nat
  BY <1>3, <1>5
<1>7. t < q
  BY <1>3, <1>6, TimesLess, Zenon
<1>8. k = n * t + r + 1
  BY <1>3, <1>5
<1>9. t \in 0..(q - 1)
  BY <1>3, <1>7
<1> QED  BY <1>8, <1>9 DEF t

\* A, not fewer, numbers do not fit below A - 1.
LEMMA Crowded ==
  ASSUME NEW A \in Nat \ {0}, NEW f \in [0..(A - 1) -> 0..(A - 2)]
  PROVE  \E a, b \in 0..(A - 1) : a # b /\ f[a] = f[b]
<1>1. 0 \in Int /\ A - 1 \in Int /\ A - 2 \in Int
  OBVIOUS
<1>2. /\ IsFiniteSet(0..(A - 1)) /\ Cardinality(0..(A - 1)) = IF 0 > A - 1 THEN 0 ELSE (A - 1) - 0 + 1
      /\ IsFiniteSet(0..(A - 2)) /\ Cardinality(0..(A - 2)) = IF 0 > A - 2 THEN 0 ELSE (A - 2) - 0 + 1
  BY <1>1, FS_Interval
<1>3. Cardinality(0..(A - 2)) < Cardinality(0..(A - 1))
  BY <1>2
<1> QED  BY <1>2, <1>3, FS_PigeonHole

HasRoom(s, net, n, A, len) ==
  \E a \in 0..(A - 1) : \A k \in 1..len : s[k] # Address(net[(len % n) + 1], A, a)

\* While the hosts take turns, no network runs dry before the last of them:
\* the hosts of one network are fewer than its addresses.
LEMMA NoneRunsDry ==
  ASSUME NEW n \in Nat \ {0}, NEW A \in Nat \ {0}, NEW len \in Nat, len < n * A,
         NEW s, NEW net \in [1..n -> Nat], IsInjective(net),
         \A k \in 1..len : TakesItsTurn(s, net, n, A, k)
  PROVE  HasRoom(s, net, n, A, len)
<1> DEFINE r == len % n
           q == len \div n
<1>0. q = len \div n /\ r = len % n
  OBVIOUS
<1> SUFFICES ASSUME \A a \in 0..(A - 1) : \E k \in 1..len : s[k] = Address(net[r + 1], A, a)
             PROVE  FALSE
  BY DEF HasRoom
<1> HIDE DEF q, r
<1>1. q \in Nat /\ r \in 0..(n - 1) /\ len = n * q + r /\ n * q \in Nat
  BY <1>0, DivMod, Zenon
<1>2. q < A
  <2>1. n * q + r < n * A /\ n \in Nat /\ A \in Nat /\ r \in Nat
    BY <1>1
  <2> QED  BY <1>1, <2>1, QuotientBelow, Zenon
<1> DEFINE pos(a) == CHOOSE k \in 1..len : s[k] = Address(net[r + 1], A, a)
           turn(a) == (pos(a) - 1) \div n
           f == [a \in 0..(A - 1) |-> turn(a)]
<1>3. ASSUME NEW a \in 0..(A - 1)
      PROVE  pos(a) \in 1..len /\ s[pos(a)] = Address(net[r + 1], A, a)
  OBVIOUS
<1> HIDE DEF pos
<1>4. ASSUME NEW a \in 0..(A - 1)
      PROVE  turn(a) \in 0..(A - 2) /\ pos(a) = n * turn(a) + r + 1
  <2>1. pos(a) \in Nat \ {0} /\ pos(a) - 1 < n * q + r
    BY <1>1, <1>3
  <2>2. TakesItsTurn(s, net, n, A, pos(a)) /\ turn(a) = (pos(a) - 1) \div n
    BY <1>3
  <2>3. NumberedByTurn(n, A, q, r, s, net)
    BY <1>1, TurnNumber
  <2>4. turn(a) \in 0..(q - 1) /\ pos(a) = n * turn(a) + r + 1
    BY <1>3, <2>1, <2>2, <2>3, Zenon DEF NumberedByTurn
  <2> HIDE DEF turn
  <2>5. \A t \in 0..(q - 1) : t \in 0..(A - 2)
    BY <1>1, <1>2
  <2> QED  BY <2>4, <2>5, Zenon
<1> HIDE DEF turn
<1>5. f \in [0..(A - 1) -> 0..(A - 2)]
  BY <1>4, Zenon
<1>8. PICK a, b \in 0..(A - 1) : a # b /\ f[a] = f[b]
  <2> HIDE DEF f
  <2> QED  BY <1>5, Crowded
<1>9. turn(a) = turn(b)
  BY <1>8
<1>10. pos(a) = pos(b)
  BY <1>4, <1>9, Zenon
<1>11. Address(net[r + 1], A, a) = Address(net[r + 1], A, b)
  BY <1>3, <1>10
<1>12. net[r + 1] \in Nat
  BY <1>1
<1> QED  BY <1>8, <1>11, <1>12, OneNetwork
-----------------------------------------------------------------------------
(* The steps of a source *)

\* The numbers at hand.
LEMMA Numbers ==
  /\ Sizes \subseteq Nat \ {0}
  /\ Networks \in Nat \ {0} /\ Addresses \in Nat \ {0} /\ PerNetwork \in Nat \ {0}
  /\ NumOfDomains \in Nat \ {0} /\ Sites \in Nat \ {0} /\ Servers \subseteq Nat \ {0}
  /\ \A n \in Sizes : numOfNets(n) \in 1..Networks
<1>1. /\ Sizes \subseteq Nat \ {0}
      /\ Networks \in Nat \ {0} /\ Addresses \in Nat \ {0} /\ PerNetwork \in Nat \ {0}
      /\ NumOfDomains \in Nat \ {0} /\ Sites \in Nat \ {0} /\ Servers \subseteq Nat \ {0}
  BY SourcesAssumption
<1>2. ASSUME NEW n \in Sizes
      PROVE  numOfNets(n) \in 1..Networks
  <2>1. n \div PerNetwork \in Nat
    BY <1>1, DivMod
  <2> DEFINE d == n \div PerNetwork
  <2> HIDE DEF d
  <2>2. numOfNets(n) = IF d + 1 > Networks THEN Networks ELSE d + 1
    BY DEF numOfNets, d
  <2> QED  BY <1>1, <2>1, <2>2 DEF d
<1> QED  BY <1>1, <1>2

LEMMA AddressIsNatural == \A net \in Nat : randIP(net) \subseteq Nat
<1> TAKE net \in Nat
<1>1. net * Addresses \in Nat
  BY Numbers
<1> QED  BY <1>1, Numbers DEF randIP

\* One more host.
LEMMA AppendHost ==
  ASSUME NEW s \in Seq(Nat), NEW x \in Nat
  PROVE  /\ Append(s, x) \in Seq(Nat) /\ Len(Append(s, x)) = Len(s) + 1
         /\ Range(Append(s, x)) = Range(s) \cup {x}
         /\ \A k \in DOMAIN Append(s, x) : Append(s, x)[k] = IF k = Len(s) + 1 THEN x ELSE s[k]
         /\ DOMAIN s = 1..Len(s) /\ DOMAIN Append(s, x) = 1..(Len(s) + 1)
         /\ IsInjective(s) /\ x \notin Range(s) => IsInjective(Append(s, x))
<1> DEFINE t == Append(s, x)
<1>1. /\ t \in Seq(Nat) /\ Len(t) = Len(s) + 1 /\ Len(s) \in Nat
      /\ DOMAIN s = 1..Len(s) /\ DOMAIN t = 1..(Len(s) + 1)
      /\ \A k \in DOMAIN t : t[k] = IF k = Len(s) + 1 THEN x ELSE s[k]
  OBVIOUS
<1> HIDE DEF t
<1>2. Range(t) = Range(s) \cup {x}
  <2>1. Range(t) \subseteq Range(s) \cup {x}
    BY <1>1 DEF Range
  <2>2. Range(s) \subseteq Range(t)
    BY <1>1, SMTT(30) DEF Range
  <2>3. x \in Range(t)
    BY <1>1 DEF Range
  <2> QED  BY <2>1, <2>2, <2>3
<1>3. IsInjective(s) /\ x \notin Range(s) => IsInjective(t)
  BY <1>1 DEF IsInjective, Range
<1> QED  BY <1>1, <1>2, <1>3 DEF t

LEMMA EmptyHosts ==
  /\ <<>> \in Seq(Nat) /\ Len(<<>>) = 0 /\ DOMAIN <<>> = {} /\ IsInjective(<<>>)
  /\ Range(<<>>) = {} /\ <<>> \in Seq(Items)
BY DEF IsInjective, Range

LEMMA InitIInv == Init => IInv
<1> SUFFICES ASSUME Init PROVE IInv
  OBVIOUS
<1> USE EmptyHosts, Numbers DEF Init
<1>1. netIdx \in BoundedSeq(1..Networks, Networks)
  <2>1. CASE source = "scan"
    BY <2>1 DEF BoundedSeq, SeqOf
  <2>2. CASE source # "scan"
    <3>1. netIdx \in [1..0 -> 1..Networks] /\ 0 \in 0..Networks
      BY <2>2
    <3> QED  BY <3>1 DEF BoundedSeq, SeqOf
  <2> QED  BY <2>1, <2>2
<1>2. TypeOK
  BY <1>1 DEF TypeOK, Start, Attempts
<1>3. Typed /\ IsInjective(hosts)
  BY <1>2 DEF Typed
<1>4. Drawn
  BY DEF Drawn, Start
<1>5. Found
  BY DEF Found, Domains
<1>6. Picked
  BY DEF Picked, Places, WisdomTypes, Start
<1>7. Stages
  BY DEF Stages, WisdomTypes, Start, Attempts
<1> QED  BY <1>3, <1>4, <1>5, <1>6, <1>7 DEF IInv

LEMMA DrawKeepsIInv ==
  ASSUME IInv, Draw
  PROVE  IInv'
<1> USE DEF IInv
<1>0. /\ source = "scan" /\ pc = "scan" /\ tried < 2 * size /\ Len(hosts) < size
      /\ tried' = tried + 1 /\ UNCHANGED <<source, size, pc, left, lost, reply, world>>
  BY DEF Draw, Stages, TypeOK, Typed, Start, WisdomTypes
<1>1. PICK ip \in randIP(NetworkOf(Len(hosts))) :
        hosts' = IF ip \in Range(hosts) THEN hosts ELSE Append(hosts, ip)
  BY DEF Draw
<1>2. /\ hosts \in Seq(Nat) /\ Len(hosts) \in Nat /\ DOMAIN hosts = 1..Len(hosts)
      /\ size \in Nat \ {0} /\ numOfNets(size) \in 1..Networks /\ tried \in Nat
  BY Numbers DEF Typed, TypeOK
<1>3. ip \in Nat
  <2>1. netIdx \in [1..numOfNets(size) -> 1..Networks] /\ Len(netIdx) = numOfNets(size)
    BY <1>0, <1>2 DEF Drawn
  <2>2. (Len(hosts) % Len(netIdx)) + 1 \in 1..numOfNets(size)
    BY <1>2, <2>1
  <2>3. NetworkOf(Len(hosts)) \in Nat
    BY <1>2, <2>1, <2>2, Numbers DEF NetworkOf
  <2> QED  BY <1>1, <2>3, AddressIsNatural
<1>4. hosts' \in Seq(Nat) /\ Len(hosts') <= size /\ IsInjective(hosts')
  BY <1>0, <1>1, <1>2, <1>3, AppendHost
<1>5. Typed'
  BY <1>0, <1>2, <1>4 DEF Typed, TypeOK, world
<1>6. Drawn'
  <2>1. \A k \in DOMAIN hosts' : hosts'[k] \in randIP(NetworkOf(k - 1))
    <3>1. CASE ip \in Range(hosts)
      BY <1>0, <1>1, <3>1 DEF Drawn
    <3>2. CASE ip \notin Range(hosts)
      <4>1. \A k \in DOMAIN hosts : hosts[k] \in randIP(NetworkOf(k - 1))
        BY <1>0 DEF Drawn
      <4>2. (Len(hosts) + 1) - 1 = Len(hosts)
        BY <1>2
      <4>3. /\ DOMAIN hosts' = 1..(Len(hosts) + 1)
            /\ \A k \in DOMAIN hosts' : hosts'[k] = IF k = Len(hosts) + 1 THEN ip ELSE hosts[k]
        BY <1>1, <1>2, <1>3, <3>2, AppendHost
      <4> HIDE DEF IInv
      <4>4. ASSUME NEW k \in DOMAIN hosts'
            PROVE  hosts'[k] \in randIP(NetworkOf(k - 1))
        <5>1. CASE k = Len(hosts) + 1
          BY <1>1, <4>2, <4>3, <5>1
        <5>2. CASE k # Len(hosts) + 1
          BY <1>2, <4>1, <4>3, <5>2
        <5> QED  BY <5>1, <5>2
      <4> QED  BY <4>4
    <3> QED  BY <3>1, <3>2
  <2>2. \A n : NetworkOf(n)' = NetworkOf(n)
    BY <1>0 DEF NetworkOf, world
  <2> QED  BY <1>0, <2>1, <2>2 DEF Drawn, world, numOfNets
<1>7. Found' /\ Picked' /\ Stages'
  BY <1>0 DEF Found, Picked, Stages, WisdomTypes
<1> QED  BY <1>4, <1>5, <1>6, <1>7

LEMMA SortKeepsIInv ==
  ASSUME IInv, Sort
  PROVE  IInv'
<1> USE DEF IInv
<1>0. /\ source = "scan" /\ pc = "scan" /\ pc' = "done"
      /\ hosts' = Sorted(hosts) /\ UNCHANGED <<source, size, tried, left, lost, reply, world>>
  BY DEF Sort, Stages, TypeOK, Typed, Start, WisdomTypes
<1>1. /\ hosts' \in Seq(Nat) /\ Len(hosts') = Len(hosts) /\ IsInjective(hosts')
      /\ \A i, j \in DOMAIN hosts' : i < j => hosts'[i] < hosts'[j]
  BY <1>0, SortedInOrder DEF Typed, TypeOK
<1>2. Typed'
  BY <1>0, <1>1 DEF Typed, TypeOK, world
<1>3. Drawn'
  BY <1>0, <1>1 DEF Drawn, world, numOfNets
<1>4. Found' /\ Picked' /\ Stages'
  BY <1>0 DEF Found, Picked, Stages, WisdomTypes
<1> QED  BY <1>1, <1>2, <1>3, <1>4

LEMMA LookupKeepsIInv ==
  ASSUME IInv, Lookup
  PROVE  IInv'
<1> USE DEF IInv
<1>0. /\ source = "spambot" /\ pc = "lookup" /\ Len(hosts) < size
      /\ UNCHANGED <<source, size, pc, tried, reply, world>>
  BY DEF Lookup, Stages, TypeOK, Typed, Start, WisdomTypes
<1>1. PICK d \in left :
        /\ left' = left \ {d}
        /\ \/ lost' = lost \cup {d} /\ UNCHANGED hosts
           \/ /\ hosts' = IF mx[d] = 0 \/ mx[d] \in Range(hosts) THEN hosts ELSE Append(hosts, mx[d])
              /\ UNCHANGED lost
  BY DEF Lookup
<1>2. /\ hosts \in Seq(Nat) /\ Len(hosts) \in Nat /\ size \in Nat
      /\ mx \in [Domains -> Servers \cup {0}] /\ left \subseteq Domains /\ lost \subseteq Domains \ left
      /\ Range(hosts) = {mx[e] : e \in (Domains \ left) \ lost} \ {0}
  BY <1>0, Numbers DEF Typed, TypeOK, Found
<1>3. mx[d] \in Nat /\ d \in Domains /\ d \notin lost
  <2>1. d \in Domains /\ d \notin lost
    BY <1>1, <1>2
  <2>2. mx[d] \in Servers \cup {0}
    BY <1>2, <2>1
  <2>3. \A x \in Servers : x \in Nat
    BY Numbers
  <2>4. mx[d] \in Nat
    BY <2>2, <2>3
  <2> QED  BY <2>1, <2>4
<1>4. /\ hosts' \in Seq(Nat) /\ Len(hosts') <= size /\ IsInjective(hosts')
      /\ \/ lost' = lost \cup {d} /\ hosts' = hosts
         \/ lost' = lost /\ Range(hosts') = Range(hosts) \cup ({mx[d]} \ {0})
  <2>1. Len(hosts) <= size /\ IsInjective(hosts)
    BY <1>0, <1>2
  <2>2. CASE hosts' = hosts /\ lost' = lost \cup {d}
    BY <1>2, <2>1, <2>2
  <2>3. CASE hosts' = hosts /\ lost' = lost /\ (mx[d] = 0 \/ mx[d] \in Range(hosts))
    BY <1>2, <2>1, <2>3
  <2>4. CASE hosts' = Append(hosts, mx[d]) /\ lost' = lost /\ mx[d] # 0 /\ mx[d] \notin Range(hosts)
    BY <1>0, <1>2, <1>3, <2>1, <2>4, AppendHost
  <2> QED  BY <1>1, <2>2, <2>3, <2>4
<1>5. Typed'
  BY <1>0, <1>1, <1>2, <1>3, <1>4 DEF Typed, TypeOK, world
<1>6. Found'
  <2>1. CASE lost' = lost \cup {d} /\ hosts' = hosts
    <3>1. (Domains \ left') \ lost' = (Domains \ left) \ lost
      BY <1>1, <1>3, <2>1
    <3> QED  BY <1>0, <1>1, <1>2, <1>3, <2>1, <3>1 DEF Found, world
  <2>2. CASE lost' = lost /\ Range(hosts') = Range(hosts) \cup ({mx[d]} \ {0})
    <3>1. (Domains \ left') \ lost' = ((Domains \ left) \ lost) \cup {d}
      BY <1>1, <1>3, <2>2
    <3>2. Range(hosts') = {mx[e] : e \in (Domains \ left') \ lost'} \ {0}
      BY <1>2, <2>2, <3>1
    <3> QED  BY <1>0, <1>1, <1>2, <2>2, <3>2 DEF Found, world
  <2> QED  BY <1>4, <2>1, <2>2
<1>7. Drawn' /\ Picked' /\ Stages'
  BY <1>0 DEF Drawn, Picked, Stages, WisdomTypes
<1> QED  BY <1>4, <1>5, <1>6, <1>7

\* The sources that ask the API.
LEMMA Asking ==
  ASSUME IInv, pc \in {"request", "read"}
  PROVE  source \in WisdomTypes \cup {"families"} /\ hosts = <<>> /\ left = {}
BY DEF IInv, Typed, TypeOK, Start, WisdomTypes, Stages

LEMMA QueryKeepsIInv ==
  ASSUME IInv, query
  PROVE  IInv'
<1> USE DEF IInv
<1>0. /\ pc = "request" /\ tried \in Nat /\ tried < Attempts /\ tried' = tried + 1 /\ reply = "none"
      /\ \/ pc' = "request" /\ tried' # Attempts /\ reply' = reply
         \/ pc' = "error" /\ tried' = Attempts /\ reply' = reply
         \/ pc' = "read" /\ reply' \in {"items", "status", "garbled"}
      /\ UNCHANGED <<source, size, hosts, left, lost, world>>
  BY DEF query, Fails, Answers, Typed, Stages
<1>1. source \in {"dns", "ip", "families"} /\ hosts = <<>>
  BY <1>0, Asking DEF WisdomTypes
<1>2. Typed'
  BY <1>0, <1>1 DEF Typed, TypeOK, world, Attempts
<1>3. Drawn' /\ Found' /\ Picked'
  BY <1>0, <1>1 DEF Drawn, Found, Picked
<1>4. Stages'
  BY <1>0, <1>1, <1>2 DEF Stages, WisdomTypes, Attempts
<1> QED  BY <1>0, <1>2, <1>3, <1>4

LEMMA ReadKeepsIInv ==
  ASSUME IInv, Read
  PROVE  IInv'
<1> USE DEF IInv
<1>0. /\ pc = "read" /\ source \in {"dns", "ip", "families"} /\ hosts = <<>> /\ left = {}
      /\ UNCHANGED <<source, size, tried, lost, reply, netIdx, mx>> /\ reply # "none"
  BY Asking DEF Read, WisdomTypes, Stages
<1>1. CASE reply = "items"
  <2>1. items' \in Seq(Items)
    <3>1. PICK m \in 0..MaxItems : items' \in [1..m -> Items]
      BY <1>1 DEF Read, BoundedSeq, SeqOf
    <3>2. m \in Nat
      BY <3>1
    <3> QED  BY <3>1, <3>2
  <2>2. DOMAIN items' = 1..Len(items') /\ Len(items') \in Nat /\ DOMAIN items' \subseteq Nat
    BY <2>1
  <2>3. CASE source = "families"
    <3>1. pc' = "done" /\ hosts' = [i \in DOMAIN items' |-> i] /\ UNCHANGED left
      BY <1>1, <2>3 DEF Read
    <3>2. hosts' \in Seq(Nat)
      BY <2>2, <3>1
    <3>3. IsInjective(hosts')
      BY <3>1 DEF IsInjective
    <3>4. Typed'
      BY <1>0, <2>1, <2>3, <3>1, <3>2 DEF Typed, TypeOK, Stages
    <3>5. Drawn' /\ Found' /\ Picked' /\ Stages'
      BY <1>0, <1>1, <2>3, <3>1 DEF Drawn, Found, Picked, Stages, WisdomTypes
    <3> QED  BY <3>3, <3>4, <3>5
  <2>4. CASE source \in {"dns", "ip"}
    <3>1. pc' = "pick" /\ left' = DOMAIN items' /\ UNCHANGED hosts
      BY <1>1, <2>4 DEF Read
    <3>2. Typed'
      BY <1>0, <2>1, <2>4, <3>1 DEF Typed, TypeOK
    <3>3. Drawn' /\ Found' /\ Stages'
      BY <1>0, <1>1, <2>4, <3>1 DEF Drawn, Found, Stages, WisdomTypes
    <3>4. Picked'
      BY <1>0, <2>4, <3>1, EmptyHosts DEF Picked, Places
    <3> QED  BY <3>1, <3>2, <3>3, <3>4
  <2> QED  BY <1>0, <2>3, <2>4
<1>2. CASE reply # "items"
  <2>1. pc' = "error" /\ UNCHANGED <<items, left, hosts>>
    BY <1>2 DEF Read
  <2>2. Typed'
    BY <1>0, <2>1 DEF Typed, TypeOK
  <2>3. Drawn' /\ Found' /\ Picked' /\ Stages'
    BY <1>0, <1>2, <2>1 DEF Drawn, Found, Picked, Stages, WisdomTypes
  <2> QED  BY <2>1, <2>2, <2>3
<1> QED  BY <1>1, <1>2

LEMMA PickKeepsIInv ==
  ASSUME IInv, Pick
  PROVE  IInv'
<1> USE DEF IInv
<1>0. /\ source \in {"tor", "dns", "ip"} /\ pc = "pick" /\ Len(hosts) < size
      /\ UNCHANGED <<source, size, pc, tried, lost, reply, world>>
  BY DEF Pick, Stages, TypeOK, Typed, Start, WisdomTypes
<1>1. PICK i \in left :
        left' = left \ {i} /\ hosts' = IF Usable(i) THEN Append(hosts, i) ELSE hosts
  BY DEF Pick
<1>2. /\ left \subseteq Places /\ Range(hosts) = {k \in Places \ left : Usable(k)}
      /\ hosts \in Seq(Nat) /\ Len(hosts) \in Nat /\ size \in Nat
  BY <1>0, Numbers DEF Picked, WisdomTypes, Typed, TypeOK
<1>3. i \in Nat /\ i \in Places /\ i \notin Range(hosts)
  <2>1. Places \subseteq Nat
    BY DEF Places, Typed
  <2> QED  BY <1>1, <1>2, <2>1
<1>4. /\ hosts' \in Seq(Nat) /\ Len(hosts') <= size /\ IsInjective(hosts')
      /\ Range(hosts') = Range(hosts) \cup (IF Usable(i) THEN {i} ELSE {})
  BY <1>0, <1>1, <1>2, <1>3, AppendHost
<1>5. Typed'
  BY <1>0, <1>1, <1>4 DEF Typed, TypeOK, world
<1>6. Picked'
  <2>1. Places' = Places /\ \A k : Usable(k)' = Usable(k)
    BY <1>0 DEF Places, Usable, world
  <2>2. Range(hosts') = {k \in Places \ left' : Usable(k)}
    BY <1>1, <1>2, <1>3, <1>4
  <2> QED  BY <1>0, <1>1, <1>2, <2>1, <2>2 DEF Picked
<1>7. Drawn' /\ Found' /\ Stages'
  BY <1>0 DEF Drawn, Found, Stages, WisdomTypes
<1> QED  BY <1>4, <1>5, <1>6, <1>7

LEMMA ReturnKeepsIInv ==
  ASSUME IInv, Return
  PROVE  IInv'
<1> USE DEF IInv
<1>0. /\ pc \in {"lookup", "pick"} /\ pc' = "done" /\ (Len(hosts) = size \/ left = {})
      /\ source \in {"spambot", "tor", "dns", "ip"}
      /\ UNCHANGED <<source, size, hosts, tried, left, lost, reply, world>>
  BY DEF Return, Stages, TypeOK, Typed, Start, WisdomTypes
<1>1. Typed'
  BY <1>0 DEF Typed, TypeOK, world
<1>2. Drawn' /\ Found' /\ Stages'
  BY <1>0 DEF Drawn, Found, Stages, WisdomTypes, world
<1>3. Picked'
  <2>1. Places' = Places /\ \A k : Usable(k)' = Usable(k)
    BY <1>0 DEF Places, Usable, world
  <2> QED  BY <1>0, <2>1 DEF Picked, Stages, WisdomTypes
<1> QED  BY <1>0, <1>1, <1>2, <1>3

LEMMA StepKeepsIInv == IInv /\ [Next]_vars => IInv'
<1> SUFFICES ASSUME IInv, [Next]_vars PROVE IInv'
  OBVIOUS
<1>1. CASE UNCHANGED vars
  <2>1. \A k : Usable(k)' = Usable(k)
    BY <1>1 DEF vars, world, Usable
  <2>2. Picked'
    BY <1>1, <2>1 DEF vars, world, IInv, Picked, Places
  <2>3. Drawn'
    <3>1. \A n : NetworkOf(n)' = NetworkOf(n)
      BY <1>1 DEF vars, world, NetworkOf
    <3> QED  BY <1>1, <3>1 DEF vars, world, IInv, Drawn
  <2>4. Typed' /\ IsInjective(hosts') /\ Found' /\ Stages'
    BY <1>1 DEF vars, world, IInv, Typed, TypeOK, Found, Stages
  <2> QED  BY <2>2, <2>3, <2>4 DEF IInv
<1> QED  BY <1>1, DrawKeepsIInv, SortKeepsIInv, LookupKeepsIInv, QueryKeepsIInv, ReadKeepsIInv,
            PickKeepsIInv, ReturnKeepsIInv DEF Next, Terminated

LEMMA SpecIInv == Spec => []IInv
BY InitIInv, StepKeepsIInv, PTL DEF Spec
-----------------------------------------------------------------------------
\* Every variable keeps to its range: no source returns more hosts than asked,
\* or makes more attempts than it has.
THEOREM SourcesTypeOK == Spec => []TypeOK
<1>1. IInv => TypeOK
  BY DEF IInv, Typed
<1> QED  BY <1>1, SpecIInv, PTL

\* No source takes an address, a mail server, an item or a place in the list of
\* sites twice (tor's list itself names one site in two places), and sorting
\* leaves the addresses of a scan in strictly ascending order.
THEOREM NoHostTwice == Spec => []NoneTwice
<1>1. IInv => NoneTwice
  BY DEF IInv, NoneTwice, Drawn
<1> QED  BY <1>1, SpecIInv, PTL

\* While the networks of a scan hold more addresses than it has found, the one
\* whose turn it is holds a new one: the attempts left can succeed.
THEOREM ScanCanGoOn == Spec => []NeverStuck
<1>1. ASSUME IInv, pc = "scan", Len(hosts) < Len(netIdx) * Addresses
      PROVE  \E ip \in randIP(NetworkOf(Len(hosts))) : ip \notin Range(hosts)
  <2> DEFINE n == Len(netIdx)
             len == Len(hosts)
  <2>1. /\ source = "scan" /\ hosts \in Seq(Nat) /\ len \in Nat /\ DOMAIN hosts = 1..len
        /\ numOfNets(size) \in 1..Networks
    BY <1>1, Numbers DEF IInv, Typed, TypeOK, Stages, Start, WisdomTypes
  <2>2. /\ n \in Nat \ {0} /\ netIdx \in [1..n -> Nat] /\ IsInjective(netIdx)
        /\ \A k \in 1..len : hosts[k] \in randIP(netIdx[((k - 1) % n) + 1])
    <3>1. netIdx \in [1..numOfNets(size) -> 1..Networks] /\ IsInjective(netIdx)
      BY <1>1, <2>1 DEF IInv, Drawn
    <3>2. n = numOfNets(size)
      BY <2>1, <3>1
    <3>3. \A k \in DOMAIN hosts : hosts[k] \in randIP(NetworkOf(k - 1))
      BY <1>1, <2>1 DEF IInv, Drawn
    <3>4. \A x \in 1..Networks : x \in Nat
      BY Numbers
    <3>5. netIdx \in [1..n -> Nat]
      BY <3>1, <3>2, <3>4
    <3>6. n \in Nat \ {0}
      BY <2>1, <3>2, Numbers
    <3>7. \A k \in 1..len : hosts[k] \in randIP(netIdx[((k - 1) % n) + 1])
      BY <2>1, <3>3, Zenon DEF NetworkOf
    <3> QED  BY <3>1, <3>5, <3>6, <3>7
  <2>3. len < n * Addresses /\ Addresses \in Nat \ {0}
    BY <1>1, Numbers
  <2>4. \A x, ip : ip \in randIP(x) <=> \E a \in 0..(Addresses - 1) : ip = Address(x, Addresses, a)
    BY DEF randIP, Address
  <2> HIDE DEF n, len
  <2>5. \A k \in 1..len : TakesItsTurn(hosts, netIdx, n, Addresses, k)
    BY <2>2, <2>4 DEF TakesItsTurn
  <2>6. PICK a \in 0..(Addresses - 1) :
          \A k \in 1..len : hosts[k] # Address(netIdx[(len % n) + 1], Addresses, a)
    <3>1. HasRoom(hosts, netIdx, n, Addresses, len)
      BY <2>1, <2>2, <2>3, <2>5, NoneRunsDry
    <3> QED  BY <3>1 DEF HasRoom
  <2>7. Address(netIdx[(len % n) + 1], Addresses, a) \notin Range(hosts)
    BY <2>1, <2>6 DEF Range
  <2> QED  BY <2>4, <2>7 DEF NetworkOf, n, len
<1>2. IInv => NeverStuck
  BY <1>1 DEF NeverStuck
<1> QED  BY <1>2, SpecIInv, PTL

\* When spambot, tor or the API returns fewer hosts than asked, it has no more.
THEOREM ShortMeansExhausted == Spec => []ShortOnlyWhenExhausted
<1>1. ASSUME IInv, pc = "done", source # "scan", Len(hosts) < size
      PROVE  CASE source = "spambot" -> Range(hosts) = {mx[d] : d \in Domains \ lost} \ {0}
               [] source = "tor" -> Range(hosts) = 1..Sites
               [] OTHER -> Range(hosts) = {i \in DOMAIN items : Usable(i)}
  <2> USE <1>1 DEF IInv
  <2>1. Len(hosts) # size /\ source \in {"spambot", "tor", "dns", "ip", "families"}
    BY DEF Typed, TypeOK, Start
  <2>2. CASE source = "spambot"
    <3>1. left = {}
      BY <2>1, <2>2 DEF Stages
    <3> QED  BY <2>2, <3>1 DEF Found
  <2>3. CASE source \in {"tor", "dns", "ip"}
    <3>1. left = {}
      BY <2>1, <2>3 DEF Stages
    <3>2. \A i : source = "tor" => Usable(i)
      BY DEF Usable
    <3> QED  BY <2>3, <3>1, <3>2 DEF Picked, Places, WisdomTypes
  <2>4. CASE source = "families"
    <3>1. hosts = [i \in DOMAIN items |-> i] /\ \A i : Usable(i)
      BY <2>4 DEF Stages, Usable
    <3> QED  BY <2>4, <3>1 DEF Range
  <2> QED  BY <2>1, <2>2, <2>3, <2>4
<1>2. IInv => ShortOnlyWhenExhausted
  BY <1>1 DEF ShortOnlyWhenExhausted
<1> QED  BY <1>2, SpecIInv, PTL

\* A query ends well exactly when an answer with items came, and gives up
\* without any answer only after its last attempt.
THEOREM AnswersDecide == Spec => []OnlyAnswersDecide
<1>1. IInv => OnlyAnswersDecide
  BY DEF IInv, Stages, OnlyAnswersDecide, WisdomTypes
<1> QED  BY <1>1, SpecIInv, PTL
=============================================================================
