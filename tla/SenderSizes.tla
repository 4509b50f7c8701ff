---------------------------- MODULE SenderSizes ----------------------------
(***************************************************************************)
(* How an SSH transfer is split among its clients (utils/conn.go).  Sizes   *)
(* are plain integers here; SenderSizesLoop runs the same loop on machine   *)
(* words and shows that it returns what this module says.                   *)
(***************************************************************************)
EXTENDS Integers, Sequences

\* Mutant: the leftover is appended without the test for zero (conn.go:15).
MutLeftoverUntested(toSend, minSendSize) ==
  LET numSenders == toSend \div minSendSize
  IN  [i \in 1..(numSenders + 1) |->
         IF i <= numSenders THEN minSendSize ELSE toSend - numSenders * minSendSize]

\* numSenders equal parts, and one more for what is left over.
computeSenders(toSend, minSendSize) ==
  LET numSenders == toSend \div minSendSize
      leftover   == toSend - numSenders * minSendSize
      parts      == numSenders + (IF leftover = 0 THEN 0 ELSE 1)
  IN  [i \in 1..parts |-> IF i <= numSenders THEN minSendSize ELSE leftover]

Fits(maxSenders, toSend, minSendSize) ==
  Len(computeSenders(toSend, minSendSize)) <= maxSenders

\* The loop tries the multiples of minSendSize in turn and stops at the first
\* one that fits; toSend + 1 of them are more than enough for any maxSenders.
FirstFit(maxSenders, toSend, minSendSize) ==
  CHOOSE k \in 1..(toSend + 1) :
    /\ Fits(maxSenders, toSend, k * minSendSize)
    /\ \A j \in 1..(k - 1) : ~Fits(maxSenders, toSend, j * minSendSize)

ComputeSenderSizes(maxSenders, toSend, minSendSize) ==
  computeSenders(toSend, FirstFit(maxSenders, toSend, minSendSize) * minSendSize)
=============================================================================
