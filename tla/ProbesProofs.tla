--------------------------- MODULE ProbesProofs ---------------------------
(***************************************************************************)
(* What the probe loops keep, for any deadlines and any number of ports.    *)
(*                                                                         *)
(* A loop knows nothing but the end of its last probe.  The invariant says  *)
(* where that puts the clock at the top of the loop: after the timeout of a *)
(* lookup (tunnel-dns), or at a multiple of the share of a port (scan).     *)
(***************************************************************************)
EXTENDS Probes, TLAPS

Share == deadline \div Ports

\* Where the loop of scan is: every port before had its share of the time.
ScanInStep ==
  kind = "scan" =>
    /\ probes \in 0..Ports
    /\ pc = "top" => now = probes * Share
    /\ pc \in {"probe", "rest"} => /\ probes >= 1
                                   /\ until = probes * Share /\ now <= until
    /\ probes >= 1 => start = (probes - 1) * Share

TunnelInStep ==
  kind = "tunnel" =>
    /\ probes >= 1 => until = IF start + LookupTimeout < deadline THEN start + LookupTimeout ELSE deadline
    /\ pc = "top" /\ probes >= 1 => now >= until

OastInStep ==
  kind = "oast" =>
    /\ start <= now
    /\ pc = "pause" => timer >= start + 1

IInv ==
  /\ TypeOK
  /\ EndsInTime
  /\ TimelyProbes
  /\ ScanInStep
  /\ TunnelInStep
  /\ OastInStep

\* The shares of the ports fit in the time there is.
LEMMA ShareFits ==
  ASSUME NEW d \in Nat, NEW n \in Nat \ {0}, NEW k \in 0..n
  PROVE  /\ d \div n \in Nat
         /\ k * (d \div n) \in Nat
         /\ k * (d \div n) <= d
         /\ (k + 1) * (d \div n) = k * (d \div n) + (d \div n)
         /\ k < n /\ d >= n => k * (d \div n) < d
<1> DEFINE s == d \div n
<1>1. s \in Nat /\ n * s <= d /\ (d >= n => s >= 1)
  OBVIOUS
<1> HIDE DEF s
<1>2. k * s \in Nat /\ (n - k) * s \in Nat
  BY <1>1
<1>3. n * s = k * s + (n - k) * s
  BY <1>1
<1>4. k < n /\ s >= 1 => (n - k) * s >= 1
  BY <1>1
<1>5. (k + 1) * s = k * s + s
  BY <1>1
<1> QED  BY <1>1, <1>2, <1>3, <1>4, <1>5 DEF s
\* The shares of scan, for the deadline and the ports at hand.
LEMMA Shares ==
  ASSUME TypeOK
  PROVE  /\ deadline \in Nat /\ deadline < MaxTime
         /\ Share \in Nat
         /\ \A k \in 0..Ports :
              /\ k * Share \in Nat /\ k * Share <= deadline
              /\ (k + 1) * Share = k * Share + Share
              /\ k < Ports /\ deadline >= Ports => k * Share < deadline
<1>1. deadline \in Nat /\ deadline < MaxTime
  BY ProbesAssumption DEF TypeOK
<1>2. Ports \in Nat \ {0}
  BY ProbesAssumption
<1> DEFINE s == deadline \div Ports
<1>3. \A k \in 0..Ports :
        /\ s \in Nat /\ k * s \in Nat /\ k * s <= deadline
        /\ (k + 1) * s = k * s + s
        /\ k < Ports /\ deadline >= Ports => k * s < deadline
  BY <1>1, <1>2, ShareFits
<1>4. 0 \in 0..Ports
  BY <1>2
<1> HIDE DEF s
<1>5. /\ s \in Nat
      /\ \A k \in 0..Ports :
           /\ k * s \in Nat /\ k * s <= deadline
           /\ (k + 1) * s = k * s + s
           /\ k < Ports /\ deadline >= Ports => k * s < deadline
  BY <1>3, <1>4
<1>6. s = Share
  BY DEF s, Share
<1> QED  BY <1>1, <1>5, <1>6

LEMMA InitIInv == Init => IInv
<1> SUFFICES ASSUME Init PROVE IInv
  OBVIOUS
<1>1. TypeOK
  BY ProbesAssumption DEF Init, TypeOK
<1>2. deadline \in Nat
  BY <1>1, Shares
<1>3. EndsInTime /\ TimelyProbes /\ TunnelInStep /\ OastInStep
  BY <1>2 DEF Init, EndsInTime, TimelyProbes, TunnelInStep, OastInStep
<1>4. ScanInStep
  BY <1>1, Shares, ProbesAssumption DEF Init, ScanInStep
<1> QED  BY <1>1, <1>3, <1>4 DEF IInv

\* A return leaves the clock and the probes alone.
LEMMA ReturnKeepsIInv ==
  ASSUME IInv, NEW e \in {"nil", "error"}, Return(e)
  PROVE  IInv'
BY DEF Return, IInv, TypeOK, EndsInTime, TimelyProbes, ScanInStep, TunnelInStep, OastInStep, Share

\* The context of a probe ends neither before it starts nor after the parent.
LEMMA ProbeKeepsTypes ==
  ASSUME TypeOK, EndsInTime, NEW timeout \in Nat, Probe(timeout)
  PROVE  /\ TypeOK' /\ EndsInTime'
         /\ start' = now /\ until' \in now..deadline
         /\ until' = IF now + timeout < deadline THEN now + timeout ELSE deadline
<1>1. deadline \in Nat /\ now \in 0..deadline
  BY Shares DEF TypeOK, EndsInTime
<1>2. Until(timeout) \in now..deadline
  BY <1>1 DEF Until
<1> QED  BY <1>1, <1>2 DEF Probe, TypeOK, EndsInTime, Until

LEMMA StepKeepsIInv == IInv /\ [Next]_vars => IInv'
<1> SUFFICES ASSUME IInv, [Next]_vars PROVE IInv'
  OBVIOUS
<1> USE DEF IInv
<1>0. TypeOK /\ deadline \in Nat /\ now \in 0..deadline
  BY Shares DEF TypeOK, EndsInTime
<1>1. CASE TunnelTop
  <2>1. CASE now >= deadline
    BY <1>1, <2>1, ReturnKeepsIInv DEF TunnelTop
  <2>2. CASE ~(now >= deadline)
    <3>1. Probe(LookupTimeout) /\ kind = "tunnel" /\ now < deadline /\ LookupTimeout \in Nat
      BY <1>0, <1>1, <2>2 DEF TunnelTop, LookupTimeout
    <3>2. /\ TypeOK' /\ EndsInTime' /\ start' = now
          /\ until' = IF now + LookupTimeout < deadline THEN now + LookupTimeout ELSE deadline
      BY <3>1, ProbeKeepsTypes
    <3>3. TimelyProbes' /\ ScanInStep' /\ TunnelInStep' /\ OastInStep'
      BY <3>1, <3>2 DEF Probe, TimelyProbes, ScanInStep, TunnelInStep, OastInStep
    <3> QED  BY <3>2, <3>3
  <2> QED  BY <2>1, <2>2
<1>2. CASE OastTop
  <2>1. PICK pause \in Pauses : timer' = now + pause
    BY <1>2 DEF OastTop
  <2>2. pause \in 1..4
    BY DEF Pauses
  <2>3. TypeOK' /\ EndsInTime'
    BY <1>0, <1>2, <2>1, <2>2 DEF OastTop, TypeOK, EndsInTime
  <2>4. TimelyProbes' /\ ScanInStep' /\ TunnelInStep' /\ OastInStep'
    BY <1>0, <1>2, <2>1, <2>2 DEF OastTop, TypeOK, TimelyProbes, ScanInStep, TunnelInStep, OastInStep
  <2> QED  BY <2>3, <2>4
<1>3. CASE OastPause
  <2>1. CASE Return("nil")
    BY <2>1, ReturnKeepsIInv
  <2>2. CASE Probe(LookupTimeout)
    <3>1. TypeOK' /\ EndsInTime' /\ start' = now
      BY <2>2, ProbeKeepsTypes DEF LookupTimeout
    <3>2. TimelyProbes' /\ ScanInStep' /\ TunnelInStep' /\ OastInStep'
      BY <1>0, <1>3, <2>2, <3>1 DEF OastPause, Probe, TimelyProbes, ScanInStep, TunnelInStep, OastInStep
    <3> QED  BY <3>1, <3>2
  <2> QED  BY <1>3, <2>1, <2>2 DEF OastPause
<1>4. CASE ScanTop
  <2>1. CASE probes = Ports
    BY <1>4, <2>1, ReturnKeepsIInv DEF ScanTop
  <2>2. CASE probes # Ports
    <3> DEFINE k == probes
    <3>1. /\ Probe(Share) /\ kind = "scan" /\ pc = "top" /\ k \in 0..Ports /\ k < Ports /\ k + 1 \in 0..Ports
          /\ now = k * Share
      BY <1>4, <2>2, ProbesAssumption DEF ScanTop, CallTimeout, Share, ScanInStep
    <3>2. /\ Share \in Nat /\ (k + 1) * Share = now + Share /\ (k + 1) * Share <= deadline
          /\ deadline >= Ports => now < deadline
      BY <1>0, <3>1, Shares
    <3>3. /\ TypeOK' /\ EndsInTime' /\ start' = now /\ until' = now + Share
      BY <1>0, <3>1, <3>2, ProbeKeepsTypes
    <3>4. TimelyProbes'
      BY <1>0, <3>1, <3>2, <3>3, ProbesAssumption DEF Probe, TimelyProbes
    <3>5. ScanInStep'
      <4>1. probes' = k + 1 /\ pc' = "probe" /\ Share' = Share /\ now' = now
        BY <3>1 DEF Probe, Share
      <4>2. probes' - 1 = k /\ probes' \in 0..Ports /\ probes' >= 1
        BY <3>1, <4>1, ProbesAssumption
      <4>3. until' = probes' * Share' /\ start' = (probes' - 1) * Share' /\ now' <= until'
        BY <1>0, <3>1, <3>2, <3>3, <4>1, <4>2
      <4> QED  BY <4>1, <4>2, <4>3 DEF ScanInStep
    <3>6. TunnelInStep' /\ OastInStep'
      BY <3>1 DEF Probe, TunnelInStep, OastInStep
    <3> QED  BY <3>3, <3>4, <3>5, <3>6
  <2> QED  BY <2>1, <2>2
<1>5. CASE ProbeEnds
  <2>1. CASE \E e \in ErrorsOf(kind) : ~Ignored(e) /\ Return("error")
    BY <2>1, ReturnKeepsIInv
  <2>2. CASE /\ pc' = (IF kind = "oast" THEN "top" ELSE "rest")
             /\ UNCHANGED <<kind, deadline, now, timer, start, until, probes, err>>
    BY <1>5, <2>2 DEF ProbeEnds, TypeOK, EndsInTime, TimelyProbes, ScanInStep, TunnelInStep, OastInStep, Share
  <2> QED  BY <1>5, <2>1, <2>2 DEF ProbeEnds
<1>6. CASE Rest
  <2>1. TypeOK' /\ EndsInTime' /\ TimelyProbes' /\ OastInStep'
    BY <1>6 DEF Rest, TypeOK, EndsInTime, TimelyProbes, OastInStep
  <2>2. ScanInStep'
    <3>1. kind = "scan" => now = probes * Share
      BY <1>0, <1>6, Shares DEF Rest, ScanInStep
    <3> QED  BY <1>6, <3>1 DEF Rest, ScanInStep, Share
  <2>3. TunnelInStep'
    BY <1>6 DEF Rest, TunnelInStep
  <2> QED  BY <2>1, <2>2, <2>3
<1>7. CASE Tick
  <2>1. now < deadline /\ now + 1 \in 0..MaxTime
    <3>1. until \in 0..deadline /\ deadline < MaxTime /\ MaxTime \in Nat
      BY Shares, ProbesAssumption DEF TypeOK
    <3>2. now < deadline
      BY <1>0, <1>7, <3>1 DEF Tick
    <3> QED  BY <1>0, <3>1, <3>2
  <2>2. TypeOK' /\ EndsInTime' /\ TimelyProbes'
    BY <1>0, <1>7, <2>1 DEF Tick, TypeOK, EndsInTime, TimelyProbes
  <2>3. ScanInStep'
    BY <1>0, <1>7, Shares DEF Tick, ScanInStep, Share
  <2>4. TunnelInStep' /\ OastInStep'
    BY <1>0, <1>7 DEF Tick, TypeOK, TunnelInStep, OastInStep
  <2> QED  BY <2>2, <2>3, <2>4
<1>8. CASE UNCHANGED vars
  BY <1>8 DEF vars, TypeOK, EndsInTime, TimelyProbes, ScanInStep, TunnelInStep, OastInStep, Share
<1> QED  BY <1>1, <1>2, <1>3, <1>4, <1>5, <1>6, <1>7, <1>8 DEF Next, Terminated

LEMMA ProbesIInv == Spec => []IInv
BY InitIInv, StepKeepsIInv, PTL DEF Spec

\* The variables of the three loops keep to their ranges, for any deadlines
\* and any number of ports: no probe's context outlives its parent.
THEOREM ProbesTypeOK == Spec => []TypeOK
BY ProbesIInv, PTL DEF IInv

\* tunnel-dns, oast and scan are back when their context ends.
THEOREM ProbesEndInTime == Spec => []EndsInTime
BY ProbesIInv, PTL DEF IInv

\* No lookup of tunnel-dns, and no port of a scan that has a tick for each,
\* is started when the time is over.
THEOREM ProbesAreTimely == Spec => []TimelyProbes
BY ProbesIInv, PTL DEF IInv

\* A step that starts a probe comes no sooner than the gap after the last.
LEMMA StepIsSpaced ==
  IInv /\ [Next]_vars => [probes' = probes + 1 /\ probes > 0 => start' - start >= Gap]_vars
<1> SUFFICES ASSUME IInv, Next, probes' = probes + 1, probes > 0
             PROVE  start' - start >= Gap
  OBVIOUS
<1>0. TypeOK /\ probes \in Nat /\ start \in Nat /\ deadline \in Nat /\ now \in Nat
  BY Shares DEF IInv, TypeOK
<1>1. \/ TunnelTop /\ now < deadline /\ start' = now
      \/ OastPause /\ now >= timer /\ start' = now
      \/ ScanTop /\ start' = now
  BY <1>0 DEF Next, TunnelTop, OastTop, OastPause, ScanTop, ProbeEnds, Rest, Tick, Terminated, Probe, Return, vars
<1>2. CASE TunnelTop /\ now < deadline /\ start' = now
  BY <1>0, <1>2 DEF IInv, TunnelInStep, TunnelTop, Gap, LookupTimeout, EndsInTime
<1>3. CASE OastPause /\ now >= timer /\ start' = now
  BY <1>0, <1>3 DEF IInv, TypeOK, OastInStep, OastPause, Gap
<1>4. CASE ScanTop /\ start' = now
  <2>1. /\ kind = "scan" /\ probes \in 0..Ports /\ probes - 1 \in 0..Ports
        /\ now = probes * Share /\ start = (probes - 1) * Share
    BY <1>0, <1>4, ProbesAssumption DEF IInv, ScanInStep, ScanTop
  <2>2. Share \in Nat /\ ((probes - 1) + 1) * Share = (probes - 1) * Share + Share
    BY <1>0, <2>1, Shares
  <2>3. now - start = Share
    BY <1>0, <2>1, <2>2
  <2> QED  BY <1>4, <2>1, <2>2, <2>3 DEF Gap, Share
<1> QED  BY <1>1, <1>2, <1>3, <1>4

\* No simulator floods its resolver or its target, whatever the answers.
THEOREM ProbesAreSpaced == Spec => Spaced
BY ProbesIInv, StepIsSpaced, PTL DEF Spec, Spaced
==============================================================================
