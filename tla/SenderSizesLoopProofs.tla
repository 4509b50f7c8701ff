----------------------- MODULE SenderSizesLoopProofs -----------------------
(***************************************************************************)
(* For words of any width, any size and any minimum up to half a word: the  *)
(* loop never wraps, its divisor is never zero, and it returns the first    *)
(* split that fits.  The invariant says that the current minimum is a       *)
(* multiple of the first, none of the smaller ones having fitted.           *)
(***************************************************************************)
EXTENDS SenderSizesLoop, Facts

Tried ==
  \E k \in 1..(toSend + 1) :
    /\ minSendSize = k * inc
    /\ \A j \in 1..(k - 1) : ~Fits(maxSenders, toSend, j * inc)

IInv ==
  /\ TypeOK
  /\ minSendSize # 0
  /\ senders = computeSenders(toSend, minSendSize)
  /\ pc \in {"loop", "done"}
  /\ pc = "done" => Len(senders) <= maxSenders
  /\ Tried

\* The ranges of the parameters, from LoopAssumption.
LEMMA Ranges ==
  ASSUME TypeOK
  PROVE  /\ WordSize \in Nat \ {0, 1}
         /\ maxSenders \in Nat \ {0, 1}
         /\ toSend \in Nat /\ toSend < WordSize
         /\ inc \in Nat \ {0} /\ 2 * inc <= WordSize
         /\ minSendSize \in Nat /\ minSendSize < WordSize
<1>1. 2 * (WordSize \div 2) <= WordSize /\ WordSize \div 2 \in Nat
  BY LoopAssumption, DivFacts
<1> QED BY <1>1, LoopAssumption DEF TypeOK

\* A slice of senders is a slice of words.
LEMMA SendersAreWords ==
  ASSUME NEW n \in 0..(WordSize - 1), NEW min \in Nat \ {0}
  PROVE  computeSenders(n, min) \in Seq(0..(WordSize - 1))
<1> DEFINE s == computeSenders(n, min)
<1>1. n \in Nat /\ WordSize \in Nat
  BY LoopAssumption
<1>2. s \in Seq(Nat) /\ \A i \in DOMAIN s : s[i] \in 1..min /\ s[i] <= n
  BY <1>1, PartsOfSplit
<1> HIDE DEF s
<1>3. Len(s) \in Nat /\ DOMAIN s = 1..Len(s) /\ s \in [1..Len(s) -> Nat]
  BY <1>2
<1>4. \A i \in 1..Len(s) : s[i] \in 0..(WordSize - 1)
  BY <1>1, <1>2, <1>3, SMTT(30)
<1>5. s \in [1..Len(s) -> 0..(WordSize - 1)]
  BY <1>3, <1>4
<1>6. s \in Seq(0..(WordSize - 1))
  <2> DEFINE W == 0..(WordSize - 1)
  <2>1. s \in [1..Len(s) -> W]
    BY <1>5
  <2> HIDE DEF W
  <2>2. s \in Seq(W)
    BY <1>3, <2>1
  <2> QED BY <2>2 DEF W
<1> QED BY <1>6 DEF s

\* The invariant holds after the first split.
LEMMA InitIInv == Init => IInv
<1> SUFFICES ASSUME Init PROVE IInv
  OBVIOUS
<1>1. /\ maxSenders \in MaxSenders /\ toSend \in ToSend /\ inc \in MinSendSizes
      /\ minSendSize = inc /\ senders = computeSenders(toSend, minSendSize) /\ pc = "loop"
  BY DEF Init
<1>2. 2 * (WordSize \div 2) <= WordSize /\ WordSize \div 2 \in Nat
  BY LoopAssumption, DivFacts
<1>3. inc \in Nat \ {0} /\ 2 * inc <= WordSize /\ toSend \in 0..(WordSize - 1) /\ toSend \in Nat
  BY <1>1, <1>2, LoopAssumption
<1>4. senders \in Seq(0..(WordSize - 1))
  BY <1>1, <1>3, SendersAreWords
<1>5. minSendSize \in 0..(WordSize - 1) /\ minSendSize # 0
  BY <1>1, <1>3, LoopAssumption
<1>6. TypeOK
  BY <1>1, <1>3, <1>4, <1>5 DEF TypeOK
<1>7. Tried
  <2>1. 1 \in 1..(toSend + 1) /\ minSendSize = 1 * inc
    BY <1>1, <1>3
  <2> QED BY <2>1 DEF Tried
<1> QED BY <1>1, <1>5, <1>6, <1>7 DEF IInv

\* The heart of the matter: a slice that is too long for two senders or more
\* means that twice the minimum is still less than the size.
LEMMA RoomToWiden ==
  ASSUME IInv, Len(senders) > maxSenders
  PROVE  /\ minSendSize + inc < WordSize
         /\ 2 * minSendSize < toSend
<1>1. /\ maxSenders \in Nat \ {0, 1} /\ toSend \in Nat /\ toSend < WordSize
      /\ WordSize \in Nat /\ inc \in Nat \ {0} /\ 2 * inc <= WordSize
      /\ minSendSize \in Nat \ {0}
  BY Ranges DEF IInv
<1> DEFINE l == Len(senders)
<1>2. l \in Nat /\ (l - 1) * minSendSize < toSend
  BY <1>1, PartsOfSplit DEF IInv
<1> HIDE DEF l
<1>3. l > maxSenders
  BY DEF l
<1>4. l - 1 >= 2
  BY <1>1, <1>2, <1>3
<1>5. (l - 1) * minSendSize >= 2 * minSendSize
  BY <1>1, <1>2, <1>4
<1> QED BY <1>1, <1>2, <1>5

\* Widening and returning keep the invariant.
LEMMA StepIInv == IInv /\ [Next]_vars => IInv'
<1> SUFFICES ASSUME IInv, [Next]_vars PROVE IInv'
  OBVIOUS
<1>0. /\ maxSenders \in Nat \ {0, 1} /\ toSend \in Nat /\ toSend < WordSize
      /\ WordSize \in Nat \ {0, 1} /\ inc \in Nat \ {0} /\ minSendSize \in Nat \ {0}
  BY Ranges DEF IInv
<1>1. CASE Widen
  <2>0. /\ pc = "loop" /\ Len(senders) > maxSenders
        /\ minSendSize' = (minSendSize + inc) % WordSize
        /\ maxSenders' = maxSenders /\ toSend' = toSend /\ inc' = inc
        /\ IF minSendSize' = 0
             THEN pc' = "panic" /\ UNCHANGED senders
             ELSE senders' = computeSenders(toSend, minSendSize') /\ UNCHANGED pc
    BY <1>1 DEF Widen, WidenWhen
  <2>1. minSendSize + inc < WordSize /\ 2 * minSendSize < toSend
    BY <2>0, RoomToWiden
  <2>2. minSendSize' = minSendSize + inc
    BY <1>0, <2>0, <2>1
  <2>3. /\ minSendSize' \in 0..(WordSize - 1) /\ minSendSize' \in Nat \ {0}
        /\ senders' = computeSenders(toSend, minSendSize') /\ pc' = "loop"
    BY <1>0, <2>0, <2>1, <2>2
  <2>4. senders' \in Seq(0..(WordSize - 1))
    <3>1. toSend \in 0..(WordSize - 1)
      BY <1>0
    <3>2. computeSenders(toSend, minSendSize') \in Seq(0..(WordSize - 1))
      BY <2>3, <3>1, SendersAreWords
    <3> QED BY <2>3, <3>2
  <2>5. TypeOK'
    BY <2>0, <2>3, <2>4 DEF IInv, TypeOK
  <2>6. PICK k \in 1..(toSend + 1) :
          /\ minSendSize = k * inc
          /\ \A j \in 1..(k - 1) : ~Fits(maxSenders, toSend, j * inc)
    BY DEF IInv, Tried
  <2>7. k + 1 \in 1..(toSend + 1)
    <3>1. k * inc >= k
      BY <1>0
    <3> QED BY <1>0, <2>1, <2>6, <3>1
  <2>8. minSendSize' = (k + 1) * inc
    <3>1. (k + 1) * inc = k * inc + inc
      BY <1>0
    <3> QED BY <2>2, <2>6, <3>1
  <2>9. ~Fits(maxSenders, toSend, k * inc)
    <3>1. ~(Len(senders) <= maxSenders)
      <4>1. Len(senders) \in Nat
        BY <1>0, PartsOfSplit DEF IInv
      <4> QED BY <1>0, <2>0, <4>1
    <3> QED BY <2>6, <3>1 DEF Fits, IInv
  <2>10. \A j \in 1..k : ~Fits(maxSenders, toSend, j * inc)
    <3>1. \A j \in 1..k : j \in 1..(k - 1) \/ j = k
      BY <1>0
    <3> QED BY <2>6, <2>9, <3>1
  <2>11. Tried'
    <3>1. (k + 1) - 1 = k
      BY <1>0
    <3> QED BY <2>0, <2>7, <2>8, <2>10, <3>1 DEF Tried
  <2> QED BY <2>0, <2>3, <2>5, <2>11 DEF IInv
<1>2. CASE Return
  BY <1>2 DEF Return, IInv, TypeOK, Tried
<1>3. CASE UNCHANGED vars
  BY <1>3 DEF vars, IInv, TypeOK, Tried
<1> QED BY <1>1, <1>2, <1>3 DEF Next

\* The invariant holds in every reachable state.
LEMMA SpecIInv == Spec => []IInv
  BY InitIInv, StepIInv, PTL DEF Spec

\* Every variable keeps to its range, for words of any width.
THEOREM LoopTypeOK == Spec => []TypeOK
<1>1. IInv => TypeOK
  BY DEF IInv
<1> QED BY <1>1, SpecIInv, PTL

\* conn.go:28 never wraps: the new minimum is the old one and the increment.
THEOREM LoopNeverWraps == Spec => NeverWraps
<1>1. IInv /\ [Next]_vars => [minSendSize' >= minSendSize + inc \/ UNCHANGED minSendSize]_vars
  <2> SUFFICES ASSUME IInv, Next
               PROVE  minSendSize' >= minSendSize + inc \/ UNCHANGED minSendSize
    OBVIOUS
  <2>1. CASE Widen
    <3>1. Len(senders) > maxSenders /\ minSendSize' = (minSendSize + inc) % WordSize
      BY <2>1 DEF Widen, WidenWhen
    <3>2. minSendSize + inc < WordSize
      BY <3>1, RoomToWiden
    <3>3. WordSize \in Nat \ {0} /\ minSendSize \in Nat /\ inc \in Nat
      BY Ranges DEF IInv
    <3> QED BY <3>1, <3>2, <3>3
  <2>2. CASE Return
    BY <2>2 DEF Return
  <2> QED BY <2>1, <2>2 DEF Next
<1> QED BY <1>1, SpecIInv, PTL DEF Spec, NeverWraps

\* What the loop returns is the value of ComputeSenderSizes, which the model
\* of the transfer uses.
THEOREM LoopReturnsFirstFit == Spec => []ResultIsFirstFit
<1>1. IInv => ResultIsFirstFit
  <2> SUFFICES ASSUME IInv, pc = "done"
               PROVE  senders = ComputeSenderSizes(maxSenders, toSend, inc)
    BY DEF ResultIsFirstFit
  <2>0. maxSenders \in Nat \ {0} /\ toSend \in Nat /\ inc \in Nat \ {0}
    BY Ranges DEF IInv
  <2>1. PICK k \in 1..(toSend + 1) :
          /\ minSendSize = k * inc
          /\ \A j \in 1..(k - 1) : ~Fits(maxSenders, toSend, j * inc)
    BY DEF IInv, Tried
  <2>2. Fits(maxSenders, toSend, k * inc)
    BY <2>1 DEF IInv, Fits
  <2> DEFINE f == FirstFit(maxSenders, toSend, inc)
  <2>3. /\ f \in 1..(toSend + 1)
        /\ Fits(maxSenders, toSend, f * inc)
        /\ \A j \in 1..(f - 1) : ~Fits(maxSenders, toSend, j * inc)
    BY <2>0, FirstFitExists
  <2> HIDE DEF f
  <2>4. f = k
    <3>1. ~(f < k)
      <4>1. f < k => f \in 1..(k - 1)
        BY <2>0, <2>3
      <4> QED BY <2>1, <2>3, <4>1
    <3>2. ~(k < f)
      <4>1. k < f => k \in 1..(f - 1)
        BY <2>0, <2>3
      <4> QED BY <2>2, <2>3, <4>1
    <3> QED BY <2>0, <2>3, <3>1, <3>2
  <2> QED BY <2>1, <2>4 DEF IInv, ComputeSenderSizes, f
<1> QED BY <1>1, SpecIInv, PTL

\* At every turn of the loop the sizes add up to exactly what is to be sent,
\* none of them zero or above the current minimum.
THEOREM LoopSplitIsExact == Spec => []SplitIsExact
<1>1. IInv => SplitIsExact
  <2> SUFFICES ASSUME IInv PROVE SplitIsExact
    OBVIOUS
  <2> DEFINE s == computeSenders(toSend, minSendSize)
  <2>1. toSend \in Nat /\ minSendSize \in Nat \ {0} /\ senders = s
    BY Ranges DEF IInv
  <2>2. SumFunction(s) = toSend
    BY <2>1, SplitAddsUp
  <2>3. \A i \in DOMAIN s : s[i] \in 1..minSendSize
    BY <2>1, PartsOfSplit
  <2> HIDE DEF s
  <2> QED BY <2>1, <2>2, <2>3 DEF SplitIsExact
<1> QED BY <1>1, SpecIInv, PTL
=============================================================================
