------------------------------- MODULE Facts -------------------------------
(***************************************************************************)
(* What the proofs about several components share: least elements,          *)
(* recursion over the subsets of a finite set (which is how the folds of    *)
(* the community modules are defined), sums, ranks in a finite set, and     *)
(* what the split of SenderSizes gives for every size.                      *)
(***************************************************************************)
EXTENDS SenderSizes, Functions, FiniteSets, FiniteSetTheorems, WellFoundedInduction, TLAPS

\* Division with remainder, as the provers need it.
LEMMA DivFacts ==
  ASSUME NEW a \in Nat, NEW b \in Nat \ {0}
  PROVE  /\ a \div b \in Nat
         /\ (a \div b) * b <= a
         /\ a < (a \div b) * b + b
  OBVIOUS

\* Every nonempty set of naturals has a least element.
LEMMA LeastNatural ==
  ASSUME NEW T \in SUBSET Nat, T # {}
  PROVE  \E x \in T : \A y \in T : ~(y < x)
<1> DEFINE R == OpToRel(<, Nat)
<1>1. IsWellFoundedOn(R, Nat)
  BY NatLessThanWellFounded
<1>2. \E x \in T : \A y \in T : ~(<<y, x>> \in R)
  <2> HIDE DEF R
  <2> QED BY <1>1, WFMin
<1>3. \A x, y \in Nat : y < x => <<y, x>> \in R
  BY DEF OpToRel
<1> QED BY <1>2, <1>3
\* A set that holds 0 and, with each natural, the next holds them all.
LEMMA AllNaturals ==
  ASSUME NEW T, 0 \in T, \A k \in Nat : k \in T => k + 1 \in T
  PROVE  \A k \in Nat : k \in T
<1> DEFINE M == {k \in Nat : k \notin T}
<1> SUFFICES ASSUME M # {} PROVE FALSE
  OBVIOUS
<1>1. PICK k \in M : \A m \in M : ~(m < k)
  <2>1. M \in SUBSET Nat
    OBVIOUS
  <2> HIDE DEF M
  <2> QED BY <2>1, LeastNatural
<1>2. k # 0 /\ k - 1 \in Nat /\ k - 1 < k
  OBVIOUS
<1>3. k - 1 \in T
  BY <1>1, <1>2
<1>4. (k - 1) + 1 \in T
  BY <1>2, <1>3
<1> QED BY <1>4

-----------------------------------------------------------------------------
(* Recursion over the subsets of a finite set. *)

\* Among the subsets of a finite set that are marked, one is the smallest.
LEMMA SmallestSubset ==
  ASSUME NEW S, IsFiniteSet(S), NEW M \in SUBSET (SUBSET S), M # {}
  PROVE  \E s \in M : \A t \in M : ~(Cardinality(t) < Cardinality(s))
<1> DEFINE N == {Cardinality(s) : s \in M}
<1>1. N \in SUBSET Nat /\ N # {}
  BY FS_Subset, FS_CardinalityType
<1>2. PICK n \in N : \A m \in N : ~(m < n)
  <2> HIDE DEF N
  <2> QED BY <1>1, LeastNatural
<1> QED BY <1>2

\* A subset is smaller by one without one of its elements.
LEMMA OneLess ==
  ASSUME NEW S, IsFiniteSet(S), NEW s \in SUBSET S, NEW x \in s
  PROVE  /\ s \ {x} \in SUBSET S
         /\ IsFiniteSet(s) /\ Cardinality(s) \in Nat
         /\ Cardinality(s \ {x}) \in Nat
         /\ Cardinality(s \ {x}) = Cardinality(s) - 1
         /\ Cardinality(s \ {x}) < Cardinality(s)
<1>1. IsFiniteSet(s) /\ Cardinality(s) \in Nat
  BY FS_Subset, FS_CardinalityType
<1>2. Cardinality(s \ {x}) = Cardinality(s) - 1 /\ IsFiniteSet(s \ {x})
  BY <1>1, FS_RemoveElement
<1>3. Cardinality(s \ {x}) \in Nat
  BY <1>2, FS_CardinalityType
<1> QED BY <1>1, <1>2, <1>3

\* How a recursion goes through the subsets of S: pick says which element
\* comes out of each, step what it does to the value of the rest.
Picks(pick, S) == \A s \in SUBSET S : s # {} => pick[s] \in s

IsTable(g, S, base, step, pick) ==
  /\ g[{}] = base
  /\ \A s \in SUBSET S : s # {} => g[s] = step[<<pick[s], g[s \ {pick[s]}]>>]

GoTogether(g, h, S, pick) ==
  /\ g[{}] = h[{}]
  /\ \A s \in SUBSET S : s # {} /\ g[s \ {pick[s]}] = h[s \ {pick[s]}] => g[s] = h[s]

\* Two tables over the subsets of a finite set are one when they start
\* alike and each entry follows from the entry without the picked element.
LEMMA SameTable ==
  ASSUME NEW S, IsFiniteSet(S), NEW pick, Picks(pick, S), NEW g, NEW h, GoTogether(g, h, S, pick)
  PROVE  \A s \in SUBSET S : g[s] = h[s]
<1> USE DEF Picks, GoTogether
<1> DEFINE M == {s \in SUBSET S : g[s] # h[s]}
<1> SUFFICES ASSUME M # {} PROVE FALSE
  OBVIOUS
<1>1. PICK s \in M : \A t \in M : ~(Cardinality(t) < Cardinality(s))
  <2>1. M \in SUBSET (SUBSET S)
    OBVIOUS
  <2> HIDE DEF M
  <2> QED BY <2>1, SmallestSubset
<1>2. s # {} /\ s \in SUBSET S /\ pick[s] \in s
  OBVIOUS
<1>3. s \ {pick[s]} \in SUBSET S /\ Cardinality(s \ {pick[s]}) < Cardinality(s)
  BY <1>2, OneLess
<1>4. s \ {pick[s]} \notin M
  BY <1>1, <1>3
<1> QED BY <1>1, <1>2, <1>3, <1>4

\* A recursion that takes one element after the other out of a finite set
\* has a solution, with values in V when its steps stay in V.
LEMMA TableExists ==
  ASSUME NEW S, IsFiniteSet(S), NEW V, NEW base \in V, NEW step \in [S \X V -> V],
         NEW pick, Picks(pick, S)
  PROVE  \E g \in [SUBSET S -> V] : IsTable(g, S, base, step, pick)
<1> USE DEF Picks, IsTable
<1> DEFINE UpTo(k) ==
      \E g \in [SUBSET S -> V] :
        /\ g[{}] = base
        /\ \A s \in SUBSET S :
             s # {} /\ Cardinality(s) <= k => g[s] = step[<<pick[s], g[s \ {pick[s]}]>>]
    M == {k \in Nat : ~UpTo(k)}
<1>0. ASSUME NEW s \in SUBSET S
      PROVE  /\ Cardinality(s) \in Nat /\ (s # {} => Cardinality(s) > 0)
             /\ Cardinality(s) <= Cardinality(S) /\ Cardinality(S) \in Nat
  BY FS_Subset, FS_CardinalityType, FS_EmptySet
<1>1. M = {}
  <2> SUFFICES ASSUME M # {} PROVE FALSE
    OBVIOUS
  <2>1. PICK k \in M : \A m \in M : ~(m < k)
    <3>1. M \in SUBSET Nat
      OBVIOUS
    <3> HIDE DEF M
    <3> QED BY <3>1, LeastNatural
  <2>2. UpTo(0)
    <3> DEFINE g == [s \in SUBSET S |-> base]
    <3>1. g \in [SUBSET S -> V] /\ g[{}] = base
      OBVIOUS
    <3>2. \A s \in SUBSET S : ~(s # {} /\ Cardinality(s) <= 0)
      BY <1>0
    <3> QED BY <3>1, <3>2
  <2>3. k \in Nat /\ k # 0 /\ k - 1 \in Nat /\ ~UpTo(k)
    <3> HIDE DEF UpTo
    <3>1. k \in Nat /\ ~UpTo(k)
      OBVIOUS
    <3> QED BY <2>2, <3>1
  <2>4. UpTo(k - 1)
    <3> HIDE DEF UpTo
    <3>1. k - 1 < k /\ k - 1 \notin M
      BY <2>1, <2>3
    <3> QED BY <2>3, <3>1
  <2>5. PICK g \in [SUBSET S -> V] :
          /\ g[{}] = base
          /\ \A s \in SUBSET S :
               s # {} /\ Cardinality(s) <= k - 1 => g[s] = step[<<pick[s], g[s \ {pick[s]}]>>]
    BY <2>4
  <2> DEFINE h == [s \in SUBSET S |->
                     IF s # {} /\ Cardinality(s) = k THEN step[<<pick[s], g[s \ {pick[s]}]>>] ELSE g[s]]
  <2>6. h \in [SUBSET S -> V] /\ h[{}] = base
    <3>1. \A s \in SUBSET S : s # {} => step[<<pick[s], g[s \ {pick[s]}]>>] \in V
      BY <2>5
    <3> QED BY <2>5, <3>1
  <2>7. ASSUME NEW s \in SUBSET S, s # {}, Cardinality(s) <= k
        PROVE  h[s] = step[<<pick[s], h[s \ {pick[s]}]>>]
    <3> DEFINE r == s \ {pick[s]}
    <3>1. r \in SUBSET S /\ Cardinality(r) < Cardinality(s) /\ Cardinality(r) \in Nat
          /\ Cardinality(s) \in Nat
      BY <2>7, OneLess
    <3>2. h[r] = g[r]
      BY <2>3, <2>7, <3>1
    <3>3. h[s] = step[<<pick[s], g[r]>>]
      <4>1. CASE Cardinality(s) = k
        BY <2>7, <4>1
      <4>2. CASE Cardinality(s) # k
        <5>1. Cardinality(s) <= k - 1
          BY <2>3, <2>7, <3>1, <4>2
        <5>2. h[s] = g[s]
          BY <4>2
        <5> QED BY <2>5, <2>7, <5>1, <5>2
      <4> QED BY <4>1, <4>2
    <3> QED BY <3>2, <3>3
  <2>8. UpTo(k)
    <3> HIDE DEF h
    <3> QED BY <2>6, <2>7
  <2> QED BY <2>3, <2>8
<1>2. UpTo(Cardinality(S))
  <2> HIDE DEF UpTo
  <2> QED BY <1>0, <1>1
<1> QED BY <1>0, <1>2
Continues(f, base, step) == f[0] = base /\ \A k \in Nat : f[k + 1] = step[f[k]]

\* A recursion over the naturals has a solution.
LEMMA RecursionExists ==
  ASSUME NEW V, NEW base \in V, NEW step \in [V -> V]
  PROVE  \E f \in [Nat -> V] : Continues(f, base, step)
<1> DEFINE Is(f, n) == f \in [0..n -> V] /\ f[0] = base /\ \A k \in 0..n : k < n => f[k + 1] = step[f[k]]
           Has == {n \in Nat : \E f : Is(f, n)}
<1>1. \A n \in Nat : n \in Has
  <2>1. 0 \in Has
    <3>1. Is([k \in 0..0 |-> base], 0)
      OBVIOUS
    <3> HIDE DEF Is
    <3> QED BY <3>1
  <2>2. ASSUME NEW n \in Nat, n \in Has PROVE n + 1 \in Has
    <3>1. PICK f : Is(f, n)
      BY <2>2
    <3> DEFINE h == [k \in 0..(n + 1) |-> IF k = n + 1 THEN step[f[n]] ELSE f[k]]
    <3>2. h \in [0..(n + 1) -> V] /\ h[0] = base
      BY <3>1
    <3>3. ASSUME NEW k \in 0..(n + 1), k < n + 1 PROVE h[k + 1] = step[h[k]]
      <4>1. k \in 0..n /\ h[k] = f[k]
        BY <3>3
      <4>2. CASE k = n
        BY <4>1, <4>2
      <4>3. CASE k < n
        <5>1. k + 1 \in 0..n /\ h[k + 1] = f[k + 1]
          BY <4>1, <4>3
        <5> QED BY <3>1, <4>1, <4>3, <5>1
      <4> QED BY <4>1, <4>2, <4>3
    <3>4. Is(h, n + 1)
      <4> HIDE DEF h
      <4> QED BY <3>2, <3>3
    <3> HIDE DEF Is
    <3> QED BY <3>4
  <2> HIDE DEF Has
  <2> QED BY <2>1, <2>2, AllNaturals
<1> DEFINE upTo(n) == CHOOSE f : Is(f, n)
           F == [n \in Nat |-> upTo(n)[n]]
<1>2. ASSUME NEW n \in Nat PROVE Is(upTo(n), n)
  <2> HIDE DEF Is
  <2> QED BY <1>1
<1>3. ASSUME NEW n \in Nat PROVE upTo(n + 1)[n] = upTo(n)[n]
  <2> DEFINE f == upTo(n)
             h == upTo(n + 1)
             T == {k \in Nat : k <= n => f[k] = h[k]}
  <2>1. Is(f, n) /\ Is(h, n + 1)
    <3> HIDE DEF Is, upTo
    <3> QED BY <1>2
  <2> HIDE DEF f, h
  <2>2. 0 \in T
    BY <2>1
  <2>3. ASSUME NEW k \in Nat, k \in T PROVE k + 1 \in T
    <3> SUFFICES ASSUME k + 1 <= n PROVE f[k + 1] = h[k + 1]
      OBVIOUS
    <3>1. k \in 0..n /\ k < n /\ k \in 0..(n + 1) /\ k < n + 1 /\ f[k] = h[k]
      BY <2>3
    <3> QED BY <2>1, <3>1
  <2>4. n \in T
    <3> HIDE DEF T
    <3> QED BY <2>2, <2>3, AllNaturals
  <2> QED BY <2>4 DEF f, h
<1>4. F \in [Nat -> V]
  <2>1. ASSUME NEW n \in Nat PROVE upTo(n)[n] \in V
    <3>1. Is(upTo(n), n)
      <4> HIDE DEF Is, upTo
      <4> QED BY <1>2
    <3> HIDE DEF upTo
    <3> QED BY <3>1
  <2> HIDE DEF upTo
  <2> QED BY <2>1
<1>5. F[0] = base
  <2>1. Is(upTo(0), 0)
    BY <1>2
  <2> HIDE DEF upTo
  <2> QED BY <2>1
<1>6. ASSUME NEW n \in Nat PROVE F[n + 1] = step[F[n]]
  <2>1. Is(upTo(n + 1), n + 1)
    <3> HIDE DEF Is, upTo
    <3> QED BY <1>2
  <2> HIDE DEF upTo
  <2>2. upTo(n + 1)[n + 1] = step[upTo(n + 1)[n]]
    BY <2>1
  <2> QED BY <1>3, <2>2
<1> HIDE DEF F
<1> QED BY <1>4, <1>5, <1>6 DEF Continues

\* The last of each set of places comes out first.
PicksLast(pick, n) ==
  \A s \in SUBSET (1..n) : s # {} => pick[s] \in s /\ \A i \in s : i <= pick[s]

GoesInOrder(g, step, n) == \A k \in 1..n : g[1..k] = step[<<k, g[1..(k - 1)]>>]

\* A fold from left to right takes one place after the other.
LEMMA FoldInOrder ==
  ASSUME NEW n \in Nat, NEW V, NEW base \in V, NEW step \in [(1..n) \X V -> V],
         NEW pick, PicksLast(pick, n)
  PROVE  \E g \in [SUBSET (1..n) -> V] :
           IsTable(g, 1..n, base, step, pick) /\ GoesInOrder(g, step, n)
<1>1. IsFiniteSet(1..n)
  BY FS_Interval
<1>2. Picks(pick, 1..n)
  BY DEF Picks, PicksLast
<1>3. PICK g \in [SUBSET (1..n) -> V] : IsTable(g, 1..n, base, step, pick)
  BY <1>1, <1>2, TableExists
<1>4. ASSUME NEW k \in 1..n PROVE g[1..k] = step[<<k, g[1..(k - 1)]>>]
  <2>1. 1..k \in SUBSET (1..n) /\ k \in 1..k
    OBVIOUS
  <2>2. pick[1..k] \in 1..k /\ k <= pick[1..k]
    BY <2>1 DEF PicksLast
  <2>3. pick[1..k] = k
    BY <2>2
  <2>4. (1..k) \ {k} = 1..(k - 1)
    OBVIOUS
  <2> QED BY <1>3, <2>1, <2>3, <2>4 DEF IsTable
<1> QED BY <1>3, <1>4 DEF GoesInOrder
-----------------------------------------------------------------------------
(* Sums. *)

\* The sums of f over all subsets of S.
IsSumTable(g, f, S) ==
  /\ g[{}] = 0
  /\ \A s \in SUBSET S : s # {} => \E x \in s : g[s] = f[x] + g[s \ {x}]
  /\ \A s \in SUBSET S : SumFunctionOnSet(f, s) = g[s]

\* The sums of a function of naturals over the subsets of a finite set, all in
\* one table: a sum takes the chosen element out first.
LEMMA SumTable ==
  ASSUME NEW S, IsFiniteSet(S), NEW f, \A x \in S : f[x] \in Nat
  PROVE  \E g \in [SUBSET S -> Nat] : IsSumTable(g, f, S)
<1> DEFINE first(s) == CHOOSE x \in s : TRUE
           pick == [s \in SUBSET S |-> first(s)]
           step == [p \in S \X Nat |-> f[p[1]] + p[2]]
<1>1. Picks(pick, S)
  BY DEF Picks
<1>2. step \in [S \X Nat -> Nat]
  OBVIOUS
<1>3. PICK g \in [SUBSET S -> Nat] : IsTable(g, S, 0, step, pick)
  <2>1. 0 \in Nat
    OBVIOUS
  <2> HIDE DEF pick, step
  <2>2. IsFiniteSet(S)
    OBVIOUS
  <2> QED BY <1>1, <1>2, <2>1, <2>2, TableExists
<1>4. ASSUME NEW s \in SUBSET S, s # {}
      PROVE  first(s) \in s /\ g[s] = f[first(s)] + g[s \ {first(s)}]
  <2> DEFINE x == first(s)
  <2>1. pick[s] = x /\ x \in s /\ x \in S
    BY <1>4
  <2>2. g[s] = step[<<x, g[s \ {x}]>>]
    BY <1>3, <1>4, <2>1 DEF IsTable
  <2>3. g[s \ {x}] \in Nat
    OBVIOUS
  <2>4. step[<<x, g[s \ {x}]>>] = f[x] + g[s \ {x}]
    BY <2>1, <2>3
  <2> QED BY <2>1, <2>2, <2>4
<1>5. ASSUME NEW T \in SUBSET S
      PROVE  SumFunctionOnSet(f, T) = g[T]
  <2> DEFINE Solves(h) == h = [s \in SUBSET T |->
                                 IF s = {} THEN 0 ELSE f[first(s)] + h[s \ {first(s)}]]
             iter == CHOOSE h : Solves(h)
  <2>1. Solves([s \in SUBSET T |-> g[s]])
    <3>1. ASSUME NEW s \in SUBSET T
          PROVE  g[s] = IF s = {} THEN 0
                        ELSE f[first(s)] + [t \in SUBSET T |-> g[t]][s \ {first(s)}]
      BY <1>3, <1>4 DEF IsTable
    <3> HIDE DEF first
    <3> QED BY <3>1
  <2>2. Solves(iter)
    <3> HIDE DEF Solves
    <3> QED BY <2>1
  <2>3. IsFiniteSet(T) /\ Picks(pick, T)
    BY <1>1, FS_Subset DEF Picks
  <2>4. iter[{}] = g[{}]
    <3> HIDE DEF iter
    <3> QED BY <1>3, <2>2 DEF IsTable
  <2>5. ASSUME NEW s \in SUBSET T, s # {}, iter[s \ {pick[s]}] = g[s \ {pick[s]}]
        PROVE  iter[s] = g[s]
    <3> DEFINE x == first(s)
    <3>1. pick[s] = x /\ s \in SUBSET S
      OBVIOUS
    <3>2. iter[s] = f[x] + iter[s \ {x}]
      <4> HIDE DEF iter, pick, first
      <4> QED BY <2>2, <2>5
    <3>3. g[s] = f[x] + g[s \ {x}]
      BY <1>4, <2>5, <3>1
    <3> HIDE DEF iter, pick, x
    <3> QED BY <2>5, <3>1, <3>2, <3>3
  <2>6. iter[T] = g[T]
    <3> HIDE DEF iter, pick, Solves
    <3>1. \A s \in SUBSET T : iter[s] = g[s]
      <4>1. GoTogether(iter, g, T, pick)
        BY <2>4, <2>5 DEF GoTogether
      <4> QED BY <2>3, <4>1, SameTable
    <3> QED BY <3>1
  <2>7. SumFunctionOnSet(f, T) = iter[T]
    BY DEF SumFunctionOnSet, FoldFunctionOnSet, MapThenFoldSet
  <2> QED BY <2>6, <2>7
<1>6. \A s \in SUBSET S : s # {} => \E x \in s : g[s] = f[x] + g[s \ {x}]
  <2> HIDE DEF first
  <2> QED BY <1>4
<1>7. \A s \in SUBSET S : SumFunctionOnSet(f, s) = g[s]
  BY <1>5
<1> QED BY <1>3, <1>6, <1>7, Zenon DEF IsTable, IsSumTable

\* The sum over a set is a natural number, nothing for the empty set, and the
\* order of the elements does not matter: any of them can be taken out.
LEMMA SumLaws ==
  ASSUME NEW S, IsFiniteSet(S), NEW f, \A x \in S : f[x] \in Nat
  PROVE  /\ SumFunctionOnSet(f, {}) = 0
         /\ SumFunctionOnSet(f, S) \in Nat
         /\ \A x \in S : SumFunctionOnSet(f, S) = f[x] + SumFunctionOnSet(f, S \ {x})
<1>1. PICK g \in [SUBSET S -> Nat] : IsSumTable(g, f, S)
  BY SumTable
<1> USE DEF IsSumTable
<1> DEFINE M == {s \in SUBSET S : \E x \in s : g[s] # f[x] + g[s \ {x}]}
<1>2. M = {}
  <2> SUFFICES ASSUME M # {} PROVE FALSE
    OBVIOUS
  <2>1. PICK s \in M : \A t \in M : ~(Cardinality(t) < Cardinality(s))
    <3>1. M \in SUBSET (SUBSET S)
      OBVIOUS
    <3> HIDE DEF M
    <3> QED BY <3>1, SmallestSubset
  <2>2. PICK x \in s : g[s] # f[x] + g[s \ {x}]
    OBVIOUS
  <2>3. PICK y \in s : g[s] = f[y] + g[s \ {y}]
    BY <1>1, <2>2
  <2>4. s \ {x} \notin M /\ s \ {y} \notin M
    BY <2>1, OneLess
  <2>5. x # y /\ x \in s \ {y} /\ y \in s \ {x}
    BY <2>2, <2>3
  <2>6. g[s \ {y}] = f[x] + g[(s \ {y}) \ {x}] /\ g[s \ {x}] = f[y] + g[(s \ {x}) \ {y}]
    BY <2>4, <2>5
  <2>7. (s \ {y}) \ {x} = (s \ {x}) \ {y}
    OBVIOUS
  <2> DEFINE rest == g[(s \ {x}) \ {y}]
  <2>8. f[x] \in Nat /\ f[y] \in Nat /\ rest \in Nat
    OBVIOUS
  <2>9. g[s] = f[y] + (f[x] + rest) /\ g[s \ {x}] = f[y] + rest
    BY <2>3, <2>6, <2>7
  <2> HIDE DEF M, rest
  <2> QED BY <2>2, <2>8, <2>9
<1>3. \A x \in S : g[S] = f[x] + g[S \ {x}]
  BY <1>2
<1> HIDE DEF M
<1>4. {} \in SUBSET S /\ S \in SUBSET S /\ g[S] \in Nat /\ \A x \in S : S \ {x} \in SUBSET S
  OBVIOUS
<1>5. SumFunctionOnSet(f, {}) = 0 /\ SumFunctionOnSet(f, S) = g[S]
  BY <1>1, <1>4
<1>6. \A x \in S : SumFunctionOnSet(f, S \ {x}) = g[S \ {x}]
  BY <1>1, <1>4
<1> QED BY <1>3, <1>4, <1>5, <1>6

\* One more element adds its value.
LEMMA SumWith ==
  ASSUME NEW S, IsFiniteSet(S), NEW x, x \notin S, NEW f, \A y \in S \cup {x} : f[y] \in Nat
  PROVE  SumFunctionOnSet(f, S \cup {x}) = SumFunctionOnSet(f, S) + f[x]
<1>1. IsFiniteSet(S \cup {x}) /\ (S \cup {x}) \ {x} = S
  BY FS_AddElement
<1>2. SumFunctionOnSet(f, S \cup {x}) = f[x] + SumFunctionOnSet(f, (S \cup {x}) \ {x})
  <2> DEFINE T == S \cup {x}
  <2>1. IsFiniteSet(T) /\ x \in T /\ \A y \in T : f[y] \in Nat
    BY <1>1
  <2> HIDE DEF T
  <2>2. SumFunctionOnSet(f, T) = f[x] + SumFunctionOnSet(f, T \ {x})
    BY <2>1, SumLaws
  <2> QED BY <2>2 DEF T
<1>3. SumFunctionOnSet(f, S) \in Nat /\ f[x] \in Nat
  BY SumLaws
<1>4. SumFunctionOnSet(f, S \cup {x}) = f[x] + SumFunctionOnSet(f, S)
  BY <1>1, <1>2
<1> QED BY <1>3, <1>4

\* Only the values that are not zero count.
LEMMA SumSame ==
  ASSUME NEW S, IsFiniteSet(S), NEW T \in SUBSET S, NEW f, NEW h,
         \A x \in T : f[x] \in Nat /\ h[x] = f[x],
         \A x \in S \ T : h[x] = 0
  PROVE  SumFunctionOnSet(h, S) = SumFunctionOnSet(f, T)
<1> DEFINE M == {s \in SUBSET S : SumFunctionOnSet(h, s) # SumFunctionOnSet(f, s \cap T)}
<1>1. M = {}
  <2> SUFFICES ASSUME M # {} PROVE FALSE
    OBVIOUS
  <2>1. PICK s \in M : \A t \in M : ~(Cardinality(t) < Cardinality(s))
    <3>1. M \in SUBSET (SUBSET S)
      OBVIOUS
    <3> HIDE DEF M
    <3> QED BY <3>1, SmallestSubset
  <2>2. IsFiniteSet(s) /\ IsFiniteSet(s \cap T)
    BY FS_Subset
  <2>3. s # {}
    <3>1. SumFunctionOnSet(h, {}) = 0 /\ SumFunctionOnSet(f, {}) = 0
      BY SumLaws, FS_EmptySet
    <3> QED BY <3>1
  <2>4. PICK x \in s : TRUE
    BY <2>3
  <2> DEFINE r == s \ {x}
  <2>5. SumFunctionOnSet(h, r) = SumFunctionOnSet(f, r \cap T)
    <3>1. r \in SUBSET S /\ Cardinality(r) < Cardinality(s)
      BY OneLess
    <3>2. r \notin M
      BY <2>1, <3>1
    <3> QED BY <3>1, <3>2
  <2>6. SumFunctionOnSet(h, s) = h[x] + SumFunctionOnSet(h, r)
    <3>1. \A y \in s : h[y] \in Nat
      OBVIOUS
    <3> QED BY <2>2, <3>1, SumLaws, ZenonT(30)
  <2>7. SumFunctionOnSet(f, r \cap T) \in Nat
    <3>1. IsFiniteSet(r \cap T) /\ \A y \in r \cap T : f[y] \in Nat
      BY <2>2, FS_Subset
    <3> QED BY <3>1, SumLaws
  <2>8. CASE x \in T
    <3>1. SumFunctionOnSet(f, s \cap T) = f[x] + SumFunctionOnSet(f, (s \cap T) \ {x})
      <4>1. x \in s \cap T /\ \A y \in s \cap T : f[y] \in Nat
        BY <2>8
      <4> QED BY <2>2, <4>1, SumLaws
    <3>2. (s \cap T) \ {x} = r \cap T
      OBVIOUS
    <3>3. h[x] = f[x]
      BY <2>8
    <3> QED BY <2>1, <2>5, <2>6, <3>1, <3>2, <3>3
  <2>9. CASE x \notin T
    <3>1. s \cap T = r \cap T /\ h[x] = 0
      BY <2>9
    <3> QED BY <2>1, <2>5, <2>6, <2>7, <3>1
  <2> QED BY <2>8, <2>9
<1>2. S \cap T = T
  OBVIOUS
<1> QED BY <1>1, <1>2

\* Part of the values sums up to no more than all of them.
LEMMA SumMonotone ==
  ASSUME NEW S, IsFiniteSet(S), NEW T \in SUBSET S, NEW f, \A x \in S : f[x] \in Nat
  PROVE  SumFunctionOnSet(f, T) <= SumFunctionOnSet(f, S)
<1> DEFINE M == {s \in SUBSET S : T \subseteq s /\ ~(SumFunctionOnSet(f, T) <= SumFunctionOnSet(f, s))}
<1>1. M = {}
  <2> SUFFICES ASSUME M # {} PROVE FALSE
    OBVIOUS
  <2>1. PICK s \in M : \A t \in M : ~(Cardinality(t) < Cardinality(s))
    <3>1. M \in SUBSET (SUBSET S)
      OBVIOUS
    <3> HIDE DEF M
    <3> QED BY <3>1, SmallestSubset
  <2>2. IsFiniteSet(s) /\ IsFiniteSet(T) /\ SumFunctionOnSet(f, T) \in Nat
    <3>1. IsFiniteSet(s) /\ IsFiniteSet(T)
      BY FS_Subset
    <3> QED BY <3>1, SumLaws
  <2>3. PICK x \in s \ T : TRUE
    BY <2>2
  <2>4. SumFunctionOnSet(f, T) <= SumFunctionOnSet(f, s \ {x})
    <3>1. s \ {x} \in SUBSET S /\ T \subseteq s \ {x} /\ Cardinality(s \ {x}) < Cardinality(s)
      BY OneLess
    <3>2. s \ {x} \notin M
      BY <2>1, <3>1
    <3> QED BY <3>1, <3>2
  <2>5. SumFunctionOnSet(f, s) = f[x] + SumFunctionOnSet(f, s \ {x})
    BY <2>2, SumLaws
  <2>6. SumFunctionOnSet(f, s \ {x}) \in Nat
    <3>1. IsFiniteSet(s \ {x}) /\ \A y \in s \ {x} : f[y] \in Nat
      BY <2>2, FS_Subset
    <3> QED BY <3>1, SumLaws
  <2>7. f[x] \in Nat /\ ~(SumFunctionOnSet(f, T) <= SumFunctionOnSet(f, s))
    OBVIOUS
  <2> HIDE DEF M
  <2> QED BY <2>2, <2>4, <2>5, <2>6, <2>7
<1> QED BY <1>1

\* Equal values sum up to their product.
LEMMA SumConstant ==
  ASSUME NEW n \in Nat, NEW a \in Nat, NEW f, \A i \in 1..n : f[i] = a
  PROVE  SumFunctionOnSet(f, 1..n) = n * a
<1> DEFINE M == {k \in Nat : k <= n /\ SumFunctionOnSet(f, 1..k) # k * a}
<1>1. M = {}
  <2> SUFFICES ASSUME M # {} PROVE FALSE
    OBVIOUS
  <2>1. PICK k \in M : \A m \in M : ~(m < k)
    <3>1. M \in SUBSET Nat
      OBVIOUS
    <3> HIDE DEF M
    <3> QED BY <3>1, LeastNatural
  <2>2. k # 0
    <3>1. SumFunctionOnSet(f, {}) = 0
      BY SumLaws, FS_EmptySet
    <3>2. 1..0 = {} /\ 0 * a = 0
      OBVIOUS
    <3> QED BY <3>1, <3>2
  <2>3. k - 1 \in Nat /\ k - 1 <= n /\ k - 1 < k
    BY <2>2
  <2>4. SumFunctionOnSet(f, 1..(k - 1)) = (k - 1) * a
    <3>1. k - 1 \notin M
      BY <2>1, <2>3
    <3> QED BY <2>3, <3>1
  <2>5. SumFunctionOnSet(f, (1..(k - 1)) \cup {k}) = SumFunctionOnSet(f, 1..(k - 1)) + f[k]
    <3> DEFINE S == 1..(k - 1)
    <3>0. IsFiniteSet(S)
      BY <2>3, FS_Interval
    <3>1. k \notin S /\ \A y \in S \cup {k} : f[y] \in Nat
      BY <2>3
    <3> HIDE DEF S
    <3>2. SumFunctionOnSet(f, S \cup {k}) = SumFunctionOnSet(f, S) + f[k]
      BY <3>0, <3>1, SumWith
    <3> QED BY <3>2 DEF S
  <2>6. (1..(k - 1)) \cup {k} = 1..k /\ f[k] = a
    BY <2>3
  <2>7. (k - 1) * a + a = k * a
    BY <2>3
  <2> QED BY <2>4, <2>5, <2>6, <2>7
<1> QED BY <1>1
-----------------------------------------------------------------------------
(* Ranks. *)

\* Different numbers in a finite set have different ranks, from 0 on.
LEMMA Ranks ==
  ASSUME NEW S \in SUBSET Nat, IsFiniteSet(S),
         NEW rank, rank = [x \in S |-> Cardinality({y \in S : y < x})]
  PROVE  /\ \A x, y \in S : x < y => rank[x] < rank[y]
         /\ rank \in Surjection(S, 0..(Cardinality(S) - 1))
<1> DEFINE n == Cardinality(S)
           Below(x) == {y \in S : y < x}
<1>1. n \in Nat
  BY FS_CardinalityType
<1>2. ASSUME NEW x \in S
      PROVE  IsFiniteSet(Below(x)) /\ Cardinality(Below(x)) \in 0..(n - 1)
  <2>1. Below(x) \in SUBSET S /\ Below(x) # S
    OBVIOUS
  <2>2. IsFiniteSet(Below(x)) /\ Cardinality(Below(x)) <= n /\ Cardinality(Below(x)) # n
    BY <2>1, FS_Subset
  <2>3. Cardinality(Below(x)) \in Nat
    BY <2>2, FS_CardinalityType
  <2> HIDE DEF Below, n
  <2> QED  BY <1>1, <2>2, <2>3
<1>3. ASSUME NEW x \in S, NEW y \in S, x < y
      PROVE  rank[x] < rank[y]
  <2>0. x \in Nat /\ y \in Nat /\ \A z \in S : z \in Nat
    OBVIOUS
  <2>1. Below(x) \in SUBSET Below(y) /\ x \in Below(y) /\ x \notin Below(x)
    <3>1. \A z \in S : z < x => z < y
      BY <1>3, <2>0
    <3>2. ~(x < x)
      BY <2>0
    <3> QED  BY <1>3, <3>1, <3>2
  <2>2. IsFiniteSet(Below(y)) /\ Cardinality(Below(x)) \in Int /\ Cardinality(Below(y)) \in Int
    BY <1>1, <1>2
  <2>3. Cardinality(Below(x)) <= Cardinality(Below(y)) /\ Cardinality(Below(x)) # Cardinality(Below(y))
    BY <2>1, <2>2, FS_Subset
  <2>4. rank[x] = Cardinality(Below(x)) /\ rank[y] = Cardinality(Below(y))
    OBVIOUS
  <2> HIDE DEF Below
  <2> QED  BY <2>2, <2>3, <2>4
<1>4. rank \in Injection(S, 0..(n - 1))
  <2>1. rank \in [S -> 0..(n - 1)]
    BY <1>2
  <2>2. ASSUME NEW x \in S, NEW y \in S, rank[x] = rank[y]
        PROVE  x = y
    <3>1. rank[x] \in Int /\ rank[y] \in Int
      BY <1>1, <2>1
    <3>2. x \in Nat /\ y \in Nat /\ ~(x < y) /\ ~(y < x)
      BY <1>3, <2>2, <3>1
    <3> QED  BY <3>2
  <2>3. DOMAIN rank = S
    BY <2>1
  <2> QED  BY <2>1, <2>2, <2>3 DEF Injection, IsInjective
<1>5. IsFiniteSet(0..(n - 1)) /\ Cardinality(0..(n - 1)) = n
  BY <1>1, FS_Interval, SMTT(30)
<1>6. rank \in Surjection(S, 0..(n - 1))
  BY <1>4, <1>5, FS_Injection
<1> QED  BY <1>3, <1>6
-----------------------------------------------------------------------------
(* The split of a transfer. *)

\* The parts of a split: as many as the quotient, rounded up, each of them
\* positive and none larger than the minimum.
LEMMA PartsOfSplit ==
  ASSUME NEW toSend \in Nat, NEW min \in Nat \ {0}
  PROVE  LET s == computeSenders(toSend, min)
         IN  /\ s \in Seq(Nat)
             /\ Len(s) \in Nat
             /\ (Len(s) - 1) * min < toSend
             /\ toSend <= Len(s) * min
             /\ \A i \in DOMAIN s : s[i] \in 1..min /\ s[i] <= toSend
<1> DEFINE n == toSend \div min
           left == toSend - n * min
           parts == n + (IF left = 0 THEN 0 ELSE 1)
           s == computeSenders(toSend, min)
<1>1. n \in Nat /\ n * min <= toSend /\ toSend < n * min + min
  BY DivFacts
<1>2. left \in 0..(min - 1) /\ n * min \in Nat
  BY <1>1
<1>3. parts \in Nat
  BY <1>1, <1>2
<1>4. s = [i \in 1..parts |-> IF i <= n THEN min ELSE left]
  BY DEF computeSenders
<1>5. \A i \in 1..parts : /\ (IF i <= n THEN min ELSE left) \in 1..min
                          /\ (IF i <= n THEN min ELSE left) <= toSend
  <2> SUFFICES ASSUME NEW i \in 1..parts
               PROVE  /\ (IF i <= n THEN min ELSE left) \in 1..min
                      /\ (IF i <= n THEN min ELSE left) <= toSend
    OBVIOUS
  <2>1. CASE i <= n
    <3>1. n >= 1
      BY <2>1, <1>1
    <3>2. n * min >= min
      BY <3>1, <1>1
    <3> QED BY <2>1, <3>2, <1>1
  <2>2. CASE ~(i <= n)
    <3>1. left # 0
      BY <2>2, <1>1
    <3> QED BY <2>2, <3>1, <1>1, <1>2
  <2> QED BY <2>1, <2>2
<1>6. s \in Seq(Nat) /\ Len(s) = parts /\ DOMAIN s = 1..parts
  <2> HIDE DEF parts, n, left, s
  <2>1. \A i \in 1..parts : (IF i <= n THEN min ELSE left) \in Nat
    BY <1>5
  <2>2. s \in [1..parts -> Nat]
    BY <1>4, <2>1
  <2> QED BY <1>3, <2>2
<1>7. (parts - 1) * min < toSend /\ toSend <= parts * min
  <2>1. CASE left = 0
    <3>1. parts = n /\ toSend = n * min
      BY <2>1, <1>1, <1>2
    <3>2. (n - 1) * min = n * min - min
      BY <1>1
    <3> QED BY <3>1, <3>2, <1>1
  <2>2. CASE left # 0
    <3>1. parts = n + 1
      BY <2>2
    <3>2. (n + 1) * min = n * min + min
      BY <1>1
    <3> QED BY <3>1, <3>2, <1>1, <1>2
  <2> QED BY <2>1, <2>2
<1>8. \A i \in DOMAIN s : s[i] \in 1..min /\ s[i] <= toSend
  BY <1>4, <1>5, <1>6
<1> HIDE DEF s, parts, n, left
<1>9. /\ s \in Seq(Nat) /\ Len(s) \in Nat
      /\ (Len(s) - 1) * min < toSend /\ toSend <= Len(s) * min
      /\ \A i \in DOMAIN s : s[i] \in 1..min /\ s[i] <= toSend
  BY <1>3, <1>6, <1>7, <1>8
<1> QED BY <1>9 DEF s

\* A minimum above the whole size gives one part at most.
LEMMA LargeMinimumFits ==
  ASSUME NEW maxSenders \in Nat \ {0}, NEW toSend \in Nat, NEW min \in Nat, min > toSend
  PROVE  Fits(maxSenders, toSend, min)
<1> DEFINE s == computeSenders(toSend, min)
<1>0. min \in Nat \ {0}
  OBVIOUS
<1>1. Len(s) \in Nat /\ (Len(s) - 1) * min < toSend
  BY <1>0, PartsOfSplit
<1>2. Len(s) <= 1
  <2> HIDE DEF s
  <2>1. SUFFICES ASSUME Len(s) > 1 PROVE FALSE
    BY <1>1
  <2>2. Len(s) - 1 >= 1
    BY <2>1, <1>1
  <2>3. (Len(s) - 1) * min >= min
    BY <2>2, <1>1
  <2> QED BY <2>3, <1>1
<1> QED BY <1>1, <1>2 DEF Fits

\* The loop of ComputeSenderSizes has a first multiple to stop at.
LEMMA FirstFitExists ==
  ASSUME NEW maxSenders \in Nat \ {0}, NEW toSend \in Nat, NEW min \in Nat \ {0}
  PROVE  LET k == FirstFit(maxSenders, toSend, min)
         IN  /\ k \in 1..(toSend + 1)
             /\ Fits(maxSenders, toSend, k * min)
             /\ \A j \in 1..(k - 1) : ~Fits(maxSenders, toSend, j * min)
<1> DEFINE T == {k \in 1..(toSend + 1) : Fits(maxSenders, toSend, k * min)}
<1>1. toSend + 1 \in T
  <2>1. (toSend + 1) * min \in Nat /\ (toSend + 1) * min > toSend
    OBVIOUS
  <2> QED BY <2>1, LargeMinimumFits
<1>2. PICK x \in T : \A y \in T : ~(y < x)
  <2>1. T \in SUBSET Nat
    OBVIOUS
  <2> HIDE DEF T
  <2>2. T # {}
    BY <1>1
  <2> QED BY <2>1, <2>2, LeastNatural
<1>3. \A j \in 1..(x - 1) : ~Fits(maxSenders, toSend, j * min)
  <2> SUFFICES ASSUME NEW j \in 1..(x - 1), Fits(maxSenders, toSend, j * min) PROVE FALSE
    OBVIOUS
  <2>1. j \in T /\ j < x
    BY <1>2
  <2> QED BY <2>1, <1>2
<1>4. \E k \in 1..(toSend + 1) :
        /\ Fits(maxSenders, toSend, k * min)
        /\ \A j \in 1..(k - 1) : ~Fits(maxSenders, toSend, j * min)
  BY <1>2, <1>3
<1> QED BY <1>4, Zenon DEF FirstFit

\* The result of ComputeSenderSizes: not more parts than allowed, at least
\* one when there is something to send, all of them positive.
LEMMA SplitFits ==
  ASSUME NEW maxSenders \in Nat \ {0}, NEW toSend \in Nat, NEW min \in Nat \ {0}
  PROVE  LET s == ComputeSenderSizes(maxSenders, toSend, min)
         IN  /\ s \in Seq(Nat)
             /\ Len(s) \in 0..maxSenders
             /\ toSend > 0 => Len(s) > 0
             /\ \A i \in DOMAIN s : s[i] \in 1..toSend
<1> DEFINE k == FirstFit(maxSenders, toSend, min)
           s == computeSenders(toSend, k * min)
<1>1. k \in 1..(toSend + 1) /\ Fits(maxSenders, toSend, k * min)
  BY FirstFitExists
<1>2. k * min \in Nat \ {0}
  <2> HIDE DEF k
  <2> QED BY <1>1
<1> HIDE DEF k
<1>3. /\ s \in Seq(Nat) /\ Len(s) \in Nat /\ toSend <= Len(s) * (k * min)
      /\ \A i \in DOMAIN s : s[i] \in 1..(k * min) /\ s[i] <= toSend
  BY <1>2, PartsOfSplit
<1>4. Len(s) <= maxSenders
  BY <1>1 DEF Fits
<1>5. toSend > 0 => Len(s) > 0
  <2> HIDE DEF s
  <2> QED BY <1>2, <1>3
<1>6. \A i \in DOMAIN s : s[i] \in 1..toSend
  <2> HIDE DEF s
  <2> QED BY <1>2, <1>3
<1>7. s = ComputeSenderSizes(maxSenders, toSend, min)
  BY DEF ComputeSenderSizes, k
<1> QED BY <1>3, <1>4, <1>5, <1>6, <1>7

\* The parts of a split add up to what is to be sent.
LEMMA SplitAddsUp ==
  ASSUME NEW toSend \in Nat, NEW min \in Nat \ {0}
  PROVE  SumFunction(computeSenders(toSend, min)) = toSend
<1> DEFINE n == toSend \div min
           left == toSend - n * min
           s == computeSenders(toSend, min)
           sum(T) == SumFunctionOnSet(s, T)
<1>1. n \in Nat /\ n * min <= toSend
  BY DivFacts
<1>2. left \in Nat /\ n * min \in Nat /\ toSend = n * min + left
  BY <1>1
<1> HIDE DEF n
<1>3. s = [i \in 1..(n + (IF left = 0 THEN 0 ELSE 1)) |-> IF i <= n THEN min ELSE left]
  BY DEF computeSenders, n
<1> HIDE DEF left, s
<1>4. sum(1..n) = n * min
  <2>1. \A i \in 1..n : s[i] = min
    BY <1>1, <1>2, <1>3
  <2> QED BY <1>1, <2>1, SumConstant
<1>5. CASE left = 0
  <2>1. DOMAIN s = 1..n
    BY <1>1, <1>3, <1>5
  <2>2. SumFunction(s) = sum(1..n)
    BY <2>1 DEF SumFunction
  <2> QED BY <1>2, <1>4, <1>5, <2>2 DEF s
<1>6. CASE left # 0
  <2> DEFINE T == 1..n
  <2>1. DOMAIN s = T \cup {n + 1} /\ n + 1 \notin T
    BY <1>1, <1>3, <1>6
  <2>2. IsFiniteSet(T)
    BY <1>1, FS_Interval
  <2>3. \A i \in T \cup {n + 1} : s[i] \in Nat
    BY <1>1, <1>2, <1>3, <1>6
  <2>4. s[n + 1] = left
    BY <1>1, <1>3, <1>6
  <2> HIDE DEF T
  <2>5. sum(T \cup {n + 1}) = sum(T) + s[n + 1]
    BY <2>1, <2>2, <2>3, SumWith
  <2>6. SumFunction(s) = sum(T \cup {n + 1})
    BY <2>1 DEF SumFunction
  <2> QED BY <1>2, <1>4, <2>4, <2>5, <2>6 DEF s, T
<1> QED BY <1>5, <1>6

\* So do the sizes that ComputeSenderSizes returns.
LEMMA SizesAddUp ==
  ASSUME NEW maxSenders \in Nat \ {0}, NEW toSend \in Nat, NEW min \in Nat \ {0}
  PROVE  SumFunction(ComputeSenderSizes(maxSenders, toSend, min)) = toSend
<1> DEFINE k == FirstFit(maxSenders, toSend, min)
<1>1. k \in 1..(toSend + 1)
  BY FirstFitExists
<1> HIDE DEF k
<1>2. k * min \in Nat \ {0}
  BY <1>1
<1>3. SumFunction(computeSenders(toSend, k * min)) = toSend
  BY <1>2, SplitAddsUp
<1> QED BY <1>3 DEF ComputeSenderSizes, k
=============================================================================
