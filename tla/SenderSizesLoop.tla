-------------------------- MODULE SenderSizesLoop --------------------------
(***************************************************************************)
(* The loop of ComputeSenderSizes on unsigned words: minSendSize grows by   *)
(* its first value (inc) until the slice of senders is short enough.  The   *)
(* addition may wrap, and a divisor that wraps to zero panics.              *)
(***************************************************************************)
EXTENDS SenderSizes, Functions

CONSTANTS WordSize,      \* 2^64 in the code
          MaxSenders,    \* values of maxSenders
          ToSend,        \* values of toSend
          MinSendSizes   \* values of minSendSize at the call

\* The only caller passes maxClients = 2 and one megabyte.
ASSUME LoopAssumption ==
  /\ WordSize \in Nat \ {0, 1}
  /\ MaxSenders \subseteq Nat \ {0, 1}
  /\ ToSend \subseteq 0..(WordSize - 1)
  /\ MinSendSizes \subseteq 1..(WordSize \div 2)

VARIABLES maxSenders, toSend, inc, minSendSize, senders, pc

vars == <<maxSenders, toSend, inc, minSendSize, senders, pc>>

Init ==
  /\ maxSenders \in MaxSenders
  /\ toSend \in ToSend
  /\ inc \in MinSendSizes
  /\ minSendSize = inc
  /\ senders = computeSenders(toSend, minSendSize)
  /\ pc = "loop"

WidenWhen(tooLong, widened) ==
  /\ pc = "loop"
  /\ tooLong
  /\ minSendSize' = widened % WordSize
  /\ IF minSendSize' = 0
       THEN pc' = "panic" /\ UNCHANGED senders
       ELSE senders' = computeSenders(toSend, minSendSize') /\ UNCHANGED pc
  /\ UNCHANGED <<maxSenders, toSend, inc>>

\* Mutants: the test is >= (conn.go:27), or the minimum is doubled (conn.go:28).
MutWidenOnceMore == WidenWhen(Len(senders) >= maxSenders, minSendSize + inc)
MutDouble == WidenWhen(Len(senders) > maxSenders, 2 * minSendSize)

Widen == WidenWhen(Len(senders) > maxSenders, minSendSize + inc)

Return ==
  /\ pc = "loop"
  /\ Len(senders) <= maxSenders
  /\ pc' = "done"
  /\ UNCHANGED <<maxSenders, toSend, inc, minSendSize, senders>>

Next == Widen \/ Return

Spec == Init /\ [][Next]_vars /\ WF_vars(Next)
-----------------------------------------------------------------------------
\* Every variable keeps to its range; senders is a slice of words.
TypeOK ==
  /\ maxSenders \in MaxSenders
  /\ toSend \in ToSend
  /\ inc \in MinSendSizes
  /\ minSendSize \in 0..(WordSize - 1)
  /\ senders \in Seq(0..(WordSize - 1))
  /\ pc \in {"loop", "done", "panic"}

\* The sizes add up to exactly what is to be sent, and no client is started
\* to send nothing or more than the current minSendSize.
SplitIsExact ==
  /\ SumFunction(senders) = toSend
  /\ \A i \in DOMAIN senders : senders[i] \in 1..minSendSize

\* What the loop hands back is the first split, over the multiples of the
\* caller's minimum, that has at most maxSenders parts.
ResultIsFirstFit ==
  pc = "done" => senders = ComputeSenderSizes(maxSenders, toSend, inc)

\* The minimum only ever grows: the addition at conn.go:28 cannot wrap, so the
\* division at conn.go:8 never sees zero and no multiple is tried twice.
NeverWraps == [][minSendSize' >= minSendSize + inc \/ UNCHANGED minSendSize]_vars

\* The loop ends with a result, whatever the size.
Terminates == <>(pc = "done")
=============================================================================
